---- MODULE Spec2Model ----
(***************************************************************************)
(* Model of the prediction / optimization pipeline of the carbon-capture   *)
(* AI engine: PredictionService (prediction_service.py), the estimator     *)
(* CarbonCaptureOptimizer (optimization_model.py) and OptimizationService  *)
(* (optimization_service.py).                                              *)
(*                                                                         *)
(* Coroutines run on one asyncio event loop: a coroutine step (from one    *)
(* await to the next) is one atomic action.  The estimator runs on the     *)
(* worker threads of a ThreadPoolExecutor, concurrently with the loop.     *)
(***************************************************************************)
EXTENDS Integers, Sequences, FiniteSets, TLC

VARIABLES
    now,              \* time.time(), in seconds
    cache_enabled,    \* PredictionService.cache_enabled
    models,           \* CarbonCaptureOptimizer.models: target -> version, 0 = absent
    retrains,         \* number of train/load operations so far
    prediction_cache, \* PredictionService.prediction_cache: key -> entry
    calls,            \* the predict_* coroutines, by call id
    queue,            \* work items submitted to PredictionService.executor, FIFO
    running,          \* work items a worker thread of the executor is running
    ready,            \* the event loop's ready queue: callbacks in FIFO order
    writer,           \* history: the call that last stored each cache key
    op,               \* the get_batch_predictions / optimize_network call
    units,            \* its per-unit tasks, in input order
    max_concurrent,   \* OptimizationService.max_concurrent
    shutdown,         \* the shutdown() call of the services, if any
    gateway,          \* an IoTGateway: its buffer and the threads that use it
    engine            \* the SimulationEngine: its scenario runs and timers

vars == <<now, cache_enabled, models, retrains, prediction_cache,
          calls, queue, running, ready, writer, op, units, max_concurrent,
                   shutdown, gateway, engine>>

(* the state of the AI engine *)
core == <<now, cache_enabled, models, retrains, prediction_cache,
          calls, queue, running, ready, writer, op, units, max_concurrent,
          shutdown>>

(* the state of the batch / network layer *)
svars == <<op, units, max_concurrent,
                   shutdown, gateway, engine>>

----------------------------------------------------------------------------
(* Bounds of the model *)

NumCalls == 2

(* calls of predict_efficiency in the specification of the cache alone *)
NumCacheCalls == 3

(* sensor messages the gateway receives and rounds of its flush thread *)
MaxReadings == 3
MaxFlushes == 2

(* run_scenario calls *)
MaxRuns == 2
MaxRetrains == 1
NumPoolCalls == 5
NumBatchUnits == 6
NumNetworkUnits == 3
MaxConcurrentArg == 2
MaxCandidates == 3

(* Program constants *)

max_workers == 4
cache_ttl == 300
batch_concurrency == 5
default_max_concurrent == 5

----------------------------------------------------------------------------
(* Sensor readings: dictionaries from field name to value.  Values are
   integers; fractions are held in hundredths. *)

(* a value that is not a number, such as a string *)
BadValue == -1

IsNumeric(v) == v # BadValue

ReadingA ==
    [energy_consumption |-> 850, flow_rate |-> 1200, pressure |-> 45,
     temperature |-> 75]

ReadingB ==
    [energy_consumption |-> 850, flow_rate |-> 1200, pressure |-> 45,
     temperature |-> 80]

ReadingBad ==
    [energy_consumption |-> 850, flow_rate |-> 1200, pressure |-> 45,
     temperature |-> BadValue]

(* a reading without the temperature sensor *)
ReadingPartial ==
    [energy_consumption |-> 850, flow_rate |-> 1200, pressure |-> 45]

Readings == {ReadingA, ReadingB}

Kinds == {"efficiency", "maintenance", "energy"}

Targets == {"efficiency", "maintenance"}

CallIds == 1..NumCalls

(* dict.get(k, default) *)
Get(d, k, default) == IF k \in DOMAIN d THEN d[k] ELSE default

(* d[k] = v *)
With(d, k, v) == [x \in DOMAIN d \cup {k} |-> IF x = k THEN v ELSE d[x]]

Min(a, b) == IF a < b THEN a ELSE b

(* the field names in lexicographic order, as json.dumps(sort_keys=True)
   emits them *)
SortedKeys ==
    <<"current_hour", "efficiency_current", "energy_consumption",
      "flow_rate", "grid_cost_per_kwh", "grid_usage",
      "maintenance_days_since", "motor_current", "peak_hours", "pressure",
      "renewable_capacity", "renewable_cost_per_kwh",
      "renewable_energy_available", "renewable_usage", "temperature",
      "vibration">>

KeyCode(k) == CHOOSE i \in 1..Len(SortedKeys) : SortedKeys[i] = k

(* json.dumps(data, sort_keys=True): the items of the dictionary in key
   order *)
Dumps(data) ==
    LET present == SelectSeq(SortedKeys, LAMBDA k : k \in DOMAIN data)
    IN  [i \in 1..Len(present) |-> <<present[i], data[present[i]]>>]

HashMod == 1048573

RECURSIVE HashFrom(_, _, _)
HashFrom(s, i, h) ==
    IF i > Len(s) THEN h
    ELSE HashFrom(s, i + 1,
                  (h * 31 + KeyCode(s[i][1]) * 7 + s[i][2] + 2) % HashMod)

(* hash(str): a deterministic function of the characters of the string *)
Hash(s) == HashFrom(s, 1, 7)

(* the key leaves out the kind *)
CacheKeyWithoutKind(kind, data) == <<"prediction", Hash(Dumps(data))>>

(* cache_key = f"<kind>_{hash(json.dumps(data, sort_keys=True))}" *)
CacheKey(kind, data) == <<kind, Hash(Dumps(data))>>

----------------------------------------------------------------------------
(* The estimator *)

NoResult == [none |-> TRUE]

(* the estimator does not look whether a model is held for the target *)
EstimatorErrorModelUnchecked(kind, data) ==
    IF kind \in Targets /\ \E k \in DOMAIN data : ~IsNumeric(data[k])
    THEN "could not convert value"
    ELSE IF kind = "energy" /\ ~IsNumeric(Get(data, "energy_consumption", 0))
    THEN "unsupported operand"
    ELSE IF kind = "energy" /\ Get(data, "energy_consumption", 0) = 0
    THEN "division by zero"
    ELSE "none"

(* str(e) of the exception the estimator raises for this input, "none" when
   it returns.  predict_efficiency / predict_maintenance raise when no model
   is held for the target, and the scaler raises on a value it cannot
   convert (absent columns are filled with 0); optimize_energy_usage needs
   no model and divides by the energy consumption. *)
EstimatorError(kind, data) ==
    IF kind \in Targets /\ models[kind] = 0 THEN "model not trained"
    ELSE IF kind \in Targets /\ \E k \in DOMAIN data : ~IsNumeric(data[k])
    THEN "could not convert value"
    ELSE IF kind = "energy" /\ ~IsNumeric(Get(data, "energy_consumption", 0))
    THEN "unsupported operand"
    ELSE IF kind = "energy" /\ Get(data, "energy_consumption", 0) = 0
    THEN "division by zero"
    ELSE "none"

EstimatorRaises(kind, data) == EstimatorError(kind, data) # "none"

(* _calculate_risk_level, the maintenance score in hundredths *)
RiskLevel(score) ==
    IF score > 80 THEN "critical"
    ELSE IF score > 60 THEN "high"
    ELSE IF score > 40 THEN "medium"
    ELSE "low"

(* _generate_maintenance_alerts: each alert with its type and what its
   message is about *)
MaintenanceAlerts(data, score) ==
    (IF score > 80 THEN <<[alertType |-> "critical", about |-> "score"]>>
     ELSE IF score > 60 THEN <<[alertType |-> "warning", about |-> "score"]>>
     ELSE IF score > 40 THEN <<[alertType |-> "info", about |-> "score"]>>
     ELSE << >>)
    \o (IF Get(data, "vibration", 0) > 3
        THEN <<[alertType |-> "warning", about |-> "vibration"]>>
        ELSE << >>)
    \o (IF Get(data, "motor_current", 0) > 20
        THEN <<[alertType |-> "warning", about |-> "current"]>>
        ELSE << >>)

(* the maintenance score, in hundredths, that the model trained or loaded
   as number `version` predicts *)
MaintenanceScore(version) == (30 * version) % 100

(* the result dictionary the estimator builds, stamped with the time of the
   inference.  The number of the model held now stands for its output on
   this input; optimize_energy_usage computes its result by rule, the
   savings in tenths of a kWh. *)
EstimatorResult(kind, data) ==
    IF kind = "efficiency"
    THEN [kind |-> kind, input |-> data,
          predicted_efficiency |-> models[kind], timestamp |-> now]
    ELSE IF kind = "maintenance"
    THEN [kind |-> kind, input |-> data,
          maintenance_score |-> MaintenanceScore(models[kind]),
          alerts |-> MaintenanceAlerts(data,
                                       MaintenanceScore(models[kind])),
          risk_level |-> RiskLevel(MaintenanceScore(models[kind])),
          timestamp |-> now]
    ELSE [kind |-> kind, input |-> data,
          energy_savings |->
              (Min(10 * Get(data, "renewable_capacity", 0),
                   8 * Get(data, "energy_consumption", 0)) * 9) \div 10,
          renewable_usage |->
              Min(Get(data, "current_renewable_usage", 0) + 20, 80),
          timestamp |-> now]

----------------------------------------------------------------------------
(* IoTGateway (iot_gateway.py) and SimulationEngine (simulation_engine.py),
   as constructed *)

buffer_size == 100

(* the frame of a thread of the gateway: its position and its locals.
   unit_data and readings are references to a dict and to a list. *)
IdleThread(pc) ==
    [pc |-> pc, r |-> 0, unit_data |-> 0, readings |-> 0, idx |-> 0,
     size |-> 0, visited |-> FALSE, fresh |-> 0]

(* IoTGateway.__init__, for the one unit and the one sensor the model
   follows.  data_buffer is the reference held under the unit's id, 0 when
   the unit has no key; dicts[d] is the reference held in dict d under the
   sensor's id, 0 when the sensor has no key; lists[l] is the content of
   list l.  History: received counts the messages, buffered is the set of
   readings appended to a list, sent the readings the backend accepted. *)
NewGateway ==
    [is_running |-> FALSE, data_buffer |-> 0, dicts |-> << >>,
     lists |-> << >>,
     threads |-> [mqtt |-> IdleThread("idle"), flush |-> IdleThread("off")],
     rounds |-> 0, received |-> 0, buffered |-> {}, sent |-> << >>]

(* SimulationEngine.__init__: not running, no scenario active.  runs are
   the run_scenario calls made, timers the trigger_event threads started,
   triggered the events that were triggered; clock counts minutes. *)
NewEngine ==
    [is_running |-> FALSE, started |-> FALSE, scenario_active |-> "none",
     clock |-> 0, runs |-> << >>, timers |-> << >>, triggered |-> << >>,
     scenarios_executed |-> 0]

----------------------------------------------------------------------------
(* PredictionService *)

(* No shutdown() has been called.  `stage` is "open" until shutdown is
   called, "waiting" while executor.shutdown(wait=True) blocks its caller,
   "closed" once shutdown has returned; `log` lists what shutdown has done,
   `caller` is the service whose shutdown was called and `inflight` the
   work items the executor held at that moment. *)
NoShutdown ==
    [stage |-> "open", caller |-> "none", log |-> << >>, inflight |-> {}]

(* shutdown() is called from a coroutine, on the thread of the event loop:
   while it waits, the loop runs nothing *)
LoopFree == shutdown.stage # "waiting"

IdleCall ==
    [pc |-> "idle", kind |-> "efficiency", data |-> ReadingA, start_time |-> 0,
     hit |-> FALSE, dispatched |-> FALSE, stored |-> FALSE,
     fut |-> "none", futval |-> NoResult, result |-> NoResult,
     error |-> "none", end_time |-> 0, estimator_ready |-> FALSE, seen |-> 0,
     after_shutdown |-> FALSE]

Ended(call) == call.pc \in {"returned", "raised"}

(* history: the call that last stored `key`, 0 when none did *)
LastWriter(key) == IF key \in DOMAIN writer THEN writer[key] ELSE 0

(* the freshness test always passes *)
CacheFreshAlways(entry) == TRUE

CacheFresh(entry) == now - entry.timestamp < cache_ttl

(* the cache lookup at the head of predict_efficiency, predict_maintenance
   and optimize_energy *)
CacheHit(key) ==
    /\ cache_enabled
    /\ key \in DOMAIN prediction_cache
    /\ CacheFresh(prediction_cache[key])

(* which executor argument each predict method hands to run_in_executor:
   predict_efficiency passes self.executor; predict_maintenance and
   optimize_energy pass the estimator method in the executor position, so
   run_in_executor raises AttributeError before anything is submitted *)
DispatchesOnPool(kind) == kind = "efficiency"

Expired(entry) == now - entry.timestamp > cache_ttl

(* _clean_cache: delete every entry older than the TTL *)
CleanCache(cache) ==
    [k \in {k \in DOMAIN cache : ~Expired(cache[k])} |-> cache[k]]

(* the store into the cache is skipped *)
CachePutSkipped(cache, key, data) == cache

(* an entry already held for the key is kept *)
CachePutFirstWins(cache, key, data) ==
    [k \in DOMAIN cache \cup {key} |->
        IF k \in DOMAIN cache THEN cache[k]
        ELSE [data |-> data, timestamp |-> now]]

(* prediction_cache[cache_key] = {'data': result, 'timestamp': time.time()} *)
CachePut(cache, key, data) ==
    [k \in DOMAIN cache \cup {key} |->
        IF k = key THEN [data |-> data, timestamp |-> now] ELSE cache[k]]

(* the result is stored whatever cache_enabled says *)
CacheStoreAlways(cache, key, data) == CachePut(cache, key, data)

(* if self.cache_enabled: store the result *)
CacheStore(cache, key, data) ==
    IF cache_enabled THEN CachePut(cache, key, data) ELSE cache

(* the cache is swept when the call fails *)
CacheSweptAfterFailure(cache) == CleanCache(cache)

(* except Exception: log and re-raise.  The store and the sweep were
   skipped, the cache is as it was. *)
CacheAfterFailure(cache) == cache

(* the first step of the predict coroutine `c`, up to its first await: the
   cache lookup, then the submission to the worker pool.  Gives the call
   table and the executor's queue after the step. *)
PredictBegin(cs, q, c, kind, data) ==
    LET key == CacheKey(kind, data)
        base == [cs[c] EXCEPT !.kind = kind, !.data = data,
                              !.start_time = now,
                              !.estimator_ready = ~EstimatorRaises(kind, data),
                              !.seen = LastWriter(key),
                              !.after_shutdown = shutdown.stage = "closed"]
    IN  IF CacheHit(key)
        THEN [calls |-> [cs EXCEPT ![c] =
                  [base EXCEPT !.pc = "returned", !.hit = TRUE,
                               !.result = prediction_cache[key].data,
                               !.end_time = now]],
              queue |-> q]
        ELSE IF DispatchesOnPool(kind) /\ shutdown.stage # "open"
        THEN [calls |-> [cs EXCEPT ![c] =
                  [base EXCEPT !.pc = "raised",
                               !.error = "cannot schedule new futures",
                               !.end_time = now]],
              queue |-> q]
        ELSE IF DispatchesOnPool(kind)
        THEN [calls |-> [cs EXCEPT ![c] =
                  [base EXCEPT !.pc = "awaiting", !.dispatched = TRUE,
                               !.fut = "pending"]],
              queue |-> Append(q, c)]
        ELSE [calls |-> [cs EXCEPT ![c] =
                  [base EXCEPT !.pc = "raised",
                               !.error = "no attribute submit",
                               !.end_time = now]],
              queue |-> q]

(* a caller starts predict_efficiency, predict_maintenance or
   optimize_energy *)
PredictCall(c, kind, data) ==
    /\ calls[c].pc = "idle"
    /\ LoopFree
    /\ LET r == PredictBegin(calls, queue, c, kind, data)
       IN  calls' = r.calls /\ queue' = r.queue
    /\ UNCHANGED <<now, cache_enabled, models, retrains,
                   prediction_cache, running, ready, writer, svars>>

(* every work item starts at once *)
WorkerAlwaysIdle(active) == TRUE

(* ThreadPoolExecutor(max_workers): a work item starts only on an idle
   worker thread *)
WorkerIdle(active) == Cardinality(active) < max_workers

(* a worker thread of the executor takes the next work item *)
WorkerStart ==
    /\ queue # << >>
    /\ WorkerIdle(running)
    /\ running' = running \cup {Head(queue)}
    /\ queue' = Tail(queue)
    /\ UNCHANGED <<now, cache_enabled, models, retrains,
                   prediction_cache, calls, ready, writer, svars>>

(* the estimator call returns or raises in its worker thread, which hands
   the outcome to the loop (call_soon_threadsafe) *)
WorkerFinish(c) ==
    /\ c \in running
    /\ running' = running \ {c}
    /\ ready' = Append(ready, <<"done", c>>)
    /\ calls' = [calls EXCEPT ![c] =
          IF EstimatorRaises(calls[c].kind, calls[c].data)
          THEN [@ EXCEPT !.fut = "exception",
                         !.error = EstimatorError(calls[c].kind,
                                                  calls[c].data)]
          ELSE [@ EXCEPT !.fut = "done",
                         !.futval = EstimatorResult(calls[c].kind,
                                                    calls[c].data)]]
    /\ UNCHANGED <<now, cache_enabled, models, retrains,
                   prediction_cache, queue, writer, svars>>

----------------------------------------------------------------------------
(* get_batch_predictions (PredictionService) and optimize_network
   (OptimizationService): one task per unit behind a semaphore *)

NoOp ==
    [kind |-> "none", pc |-> "idle", entries |-> << >>,
     strategy |-> "balanced", limit |-> 0, start_time |-> 0,
     result |-> NoResult, error |-> "none"]

(* _load_optimization_templates: the strategies the service knows *)
Strategies ==
    {"efficiency_focused", "energy_efficient", "maintenance_prioritized",
     "balanced"}

(* the predict coroutines of unit u *)
EffCall(u) == 3 * u - 2
MaintCall(u) == 3 * u - 1
EnergyCall(u) == 3 * u

(* f'unit_{i}', i counted from 0 *)
UnitName(i) == <<"unit_", i - 1>>

(* the unit whose coroutine awaits call c *)
UnitOf(c) == (c + 2) \div 3

NewUnit(unit_id, sensor_data) ==
    [unit_id |-> unit_id, sensor_data |-> sensor_data, pc |-> "created",
     gather |-> "none", failed |-> FALSE, error |-> "none",
     result |-> NoResult, finished |-> 0]

(* the units whose coroutine has started and not finished: they are inside
   `async with semaphore` *)
InFlight == {u \in DOMAIN units : units[u].pc \in {"gathering", "energy"}}

(* the units holding a permit of the semaphore: those in flight and the
   waiter a release has woken *)
Holders == {u \in DOMAIN units : units[u].pc \in {"woken", "gathering", "energy"}}

(* acquire never waits *)
SemaphoreIgnored(limit) == TRUE

(* acquire lets one holder too many through *)
SemaphoreOffByOne(limit) == Cardinality(Holders) <= limit

(* asyncio.Semaphore(limit): acquire goes through while the counter is
   positive *)
SemaphoreFree(limit) == Cardinality(Holders) < limit

(* Semaphore.release: the first waiter, if any, is handed the permit and
   its wake-up is scheduled *)
Release(us, rq) ==
    LET blocked == {w \in DOMAIN us : us[w].pc = "blocked"}
    IN  IF blocked = {} THEN [units |-> us, ready |-> rq]
        ELSE LET w == CHOOSE w \in blocked : \A x \in blocked : w <= x
             IN  [units |-> [us EXCEPT ![w] = [@ EXCEPT !.pc = "woken"]],
                  ready |-> Append(rq, <<"unit", w>>)]

(* the unit coroutine returns `result` or raises `error`, leaving
   `async with semaphore`; `finished` numbers the units in the order in
   which they end *)
Finish(us, rq, u, failed, error, result) ==
    Release([us EXCEPT ![u] =
                [@ EXCEPT !.pc = "done", !.failed = failed,
                          !.error = error, !.result = result,
                          !.finished = 1 + Cardinality(
                              {v \in DOMAIN us : us[v].pc = "done"})]],
            rq)

(* gather(efficiency, maintenance) when its task c is done: the first
   exception, or the second result, resolves the gather and schedules the
   wake-up of the unit coroutine; a task done after that changes nothing *)
Joined(us, rq, cs, c) ==
    LET u == UnitOf(c)
    IN  IF ~Ended(cs[c]) \/ us[u].gather # "pending"
        THEN [units |-> us, ready |-> rq]
        ELSE IF cs[c].pc = "raised"
        THEN [units |-> [us EXCEPT ![u] = [@ EXCEPT !.gather = "raised",
                                                    !.error = cs[c].error]],
              ready |-> Append(rq, <<"resume", u>>)]
        ELSE IF cs[EffCall(u)].pc = "returned"
                /\ cs[MaintCall(u)].pc = "returned"
        THEN [units |-> [us EXCEPT ![u] = [@ EXCEPT !.gather = "ok"]],
              ready |-> Append(rq, <<"resume", u>>)]
        ELSE [units |-> us, ready |-> rq]

(* The optimization plan.  Efficiency gains, weights and risk reductions
   are held in hundredths, energy savings and CO2 reductions in tenths. *)

(* _load_optimization_templates *)
Templates ==
    [efficiency_focused |->
        [priority_weights |-> [efficiency |-> 50, energy_savings |-> 30,
                               maintenance_risk |-> 20],
         constraints |-> [max_energy_increase |-> 5,
                          min_efficiency_gain |-> 2]],
     energy_efficient |->
        [priority_weights |-> [efficiency |-> 20, energy_savings |-> 60,
                               maintenance_risk |-> 20],
         constraints |-> [max_efficiency_decrease |-> 1,
                          min_energy_savings |-> 500]],
     maintenance_prioritized |->
        [priority_weights |-> [efficiency |-> 20, energy_savings |-> 20,
                               maintenance_risk |-> 60],
         constraints |-> [max_maintenance_risk |-> 30,
                          maintenance_window_days |-> 30]],
     balanced |->
        [priority_weights |-> [efficiency |-> 33, energy_savings |-> 33,
                               maintenance_risk |-> 34],
         constraints |-> [balanced_tradeoff |-> 1]]]

Recommendation(id, category, gain, savings, co2, risk_reduction, difficulty, hours, cost, risk_level) ==
    [id |-> id, category |-> category,
     impact |-> [efficiency_gain |-> gain, energy_savings |-> savings,
                 co2_reduction |-> co2,
                 maintenance_risk_reduction |-> risk_reduction],
     difficulty |-> difficulty, time_to_implement |-> hours, cost |-> cost,
     risk_level |-> risk_level]

(* _generate_efficiency_recommendations *)
EfficiencyRecommendations(sensor_data) ==
    (IF Get(sensor_data, "temperature", 25) > 28
     THEN <<Recommendation("temp_optimization", "efficiency", 250, 350, 120,
                           0, "medium", 2, 0, "low")>>
     ELSE << >>)
    \o (IF Get(sensor_data, "pressure", 50) > 55
        THEN <<Recommendation("pressure_optimization", "efficiency", 180,
                              250, 80, 0, "medium", 4, 0, "low")>>
        ELSE << >>)
    \o (IF Get(sensor_data, "flow_rate", 1000) > 1300
        THEN <<Recommendation("flow_optimization", "efficiency", 120, 200,
                              60, 0, "low", 1, 0, "low")>>
        ELSE << >>)

PeakHours == {9, 10, 11, 17, 18, 19}

(* _generate_energy_recommendations *)
EnergyRecommendations(energy_result) ==
    (IF Get(energy_result, "renewable_usage", 0) < 70
     THEN <<Recommendation("renewable_shift", "energy", 50,
                (3 * Get(energy_result, "energy_savings", 0)) \div 10,
                (4 * Get(energy_result, "energy_savings", 0)) \div 10,
                0, "medium", 8, 500, "low")>>
     ELSE << >>)
    \o (IF (now \div 3600) % 24 \in PeakHours
        THEN <<Recommendation("peak_shaving", "energy", 80, 450, 180, 0,
                              "high", 24, 2000, "medium")>>
        ELSE << >>)

RECURSIVE AlertRecommendations(_)
AlertRecommendations(alerts) ==
    IF alerts = << >> THEN << >>
    ELSE (IF Head(alerts).alertType = "warning"
             /\ Head(alerts).about = "vibration"
          THEN <<Recommendation("vibration_maintenance", "maintenance", 150,
                                300, 100, 40, "medium", 16, 1500, "medium")>>
          ELSE IF Head(alerts).alertType = "warning"
                  /\ Head(alerts).about = "current"
          THEN <<Recommendation("electrical_maintenance", "maintenance", 120,
                                250, 80, 35, "high", 20, 2500, "high")>>
          ELSE << >>)
         \o AlertRecommendations(Tail(alerts))

(* _generate_maintenance_recommendations *)
MaintenanceRecommendations(sensor_data, maintenance_result) ==
    AlertRecommendations(Get(maintenance_result, "alerts", << >>))
    \o (IF Get(sensor_data, "maintenance_days_since", 0) > 180
        THEN <<Recommendation("preventive_maintenance", "maintenance", 200,
                              500, 150, 60, "high", 48, 5000, "low")>>
        ELSE << >>)

(* _apply_strategy_constraints *)
ApplyStrategyConstraints(recommendations, constraints) ==
    SelectSeq(recommendations, LAMBDA rec :
        /\ "max_energy_increase" \in DOMAIN constraints =>
              ~(/\ rec.impact.energy_savings < 0
                /\ -rec.impact.energy_savings >
                       10 * constraints.max_energy_increase)
        /\ "min_efficiency_gain" \in DOMAIN constraints =>
              rec.impact.efficiency_gain >= constraints.min_efficiency_gain
        /\ "max_efficiency_decrease" \in DOMAIN constraints =>
              rec.impact.efficiency_gain >=
                  -constraints.max_efficiency_decrease
        /\ "min_energy_savings" \in DOMAIN constraints =>
              rec.impact.energy_savings >= constraints.min_energy_savings)

DifficultyPenalty(difficulty) ==
    IF difficulty = "medium" THEN 10 ELSE IF difficulty = "high" THEN 20 ELSE 0

RiskPenalty(risk_level) ==
    IF risk_level = "medium" THEN 15 ELSE IF risk_level = "high" THEN 30 ELSE 0

(* calculate_priority_score, times 4 000 000: the weighted impact, less the
   difficulty penalty, less the risk penalty *)
PriorityScore(rec, weights) ==
    (rec.impact.efficiency_gain * weights.efficiency
     + rec.impact.energy_savings * weights.energy_savings
     + rec.impact.maintenance_risk_reduction * weights.maintenance_risk * 100)
    * ((100 - DifficultyPenalty(rec.difficulty)) \div 5)
    * ((100 - RiskPenalty(rec.risk_level)) \div 5)

(* the sort puts candidates of equal score in reverse generation order *)
PrioritizeTiesReversed(recommendations, weights) ==
    LET n == Len(recommendations)
        score(i) == PriorityScore(recommendations[i], weights)
        place(i) == 1 + Cardinality({j \in 1..n :
                            \/ score(j) > score(i)
                            \/ score(j) = score(i) /\ j > i})
        at(k) == CHOOSE i \in 1..n : place(i) = k
    IN  [k \in 1..n |->
            With(With(recommendations[at(k)], "priority_rank", k),
                 "priority_score", score(at(k)))]

(* _prioritize_recommendations: sorted(..., reverse=True) is stable, then
   each recommendation is given its rank and its score *)
PrioritizeRecommendations(recommendations, weights) ==
    LET n == Len(recommendations)
        score(i) == PriorityScore(recommendations[i], weights)
        place(i) == 1 + Cardinality({j \in 1..n :
                            \/ score(j) > score(i)
                            \/ score(j) = score(i) /\ j < i})
        at(k) == CHOOSE i \in 1..n : place(i) = k
    IN  [k \in 1..n |->
            With(With(recommendations[at(k)], "priority_rank", k),
                 "priority_score", score(at(k)))]

RECURSIVE Sum(_)
Sum(s) == IF s = << >> THEN 0 ELSE Head(s) + Sum(Tail(s))

Top(s, n) == SubSeq(s, 1, Min(n, Len(s)))

(* _calculate_expected_outcomes: totals over the top 3 recommendations *)
ExpectedOutcomes(recommendations, sensor_data, time_horizon) ==
    LET top_recs == Top(recommendations, 3)
        n == Len(top_recs)
        gain == Sum([i \in 1..n |-> top_recs[i].impact.efficiency_gain])
        savings == Sum([i \in 1..n |-> top_recs[i].impact.energy_savings])
        co2 == Sum([i \in 1..n |-> top_recs[i].impact.co2_reduction])
        cost == Sum([i \in 1..n |-> top_recs[i].cost])
    IN  [time_horizon_hours |-> time_horizon,
         projected_efficiency |->
             100 * Get(sensor_data, "efficiency_current", 80)
             + gain,
         total_efficiency_gain |-> gain,
         total_energy_savings_kwh |-> savings,
         total_co2_reduction_tons |-> co2,
         total_implementation_cost |-> cost,
         recommendations_implemented |-> Len(top_recs)]

(* _calculate_implementation_priority; the score in hundredths *)
ImplementationPriority(recommendations, maintenance_score) ==
    IF maintenance_score > 80 THEN "critical"
    ELSE IF maintenance_score > 60 \/ Len(recommendations) > 3 THEN "high"
    ELSE IF maintenance_score > 40 THEN "medium"
    ELSE "low"

(* a domain is selected from a weight of 0.3 on *)
DomainSelectedFromThreshold(weight) == weight >= 30

(* if weights[domain] > 0.3, the weight in hundredths *)
DomainSelected(weight) == weight > 30

(* _generate_optimization_plan *)
GenerateOptimizationPlan(sensor_data, maintenance_result, energy_result, strategy, time_horizon) ==
    LET weights == Templates[strategy].priority_weights
        recommendations ==
            (IF DomainSelected(weights.efficiency)
             THEN EfficiencyRecommendations(sensor_data) ELSE << >>)
            \o (IF DomainSelected(weights.energy_savings)
                THEN EnergyRecommendations(energy_result) ELSE << >>)
            \o (IF DomainSelected(weights.maintenance_risk)
                THEN MaintenanceRecommendations(sensor_data,
                                                maintenance_result)
                ELSE << >>)
        prioritized ==
            PrioritizeRecommendations(
                ApplyStrategyConstraints(recommendations,
                                         Templates[strategy].constraints),
                weights)
    IN  [strategy_applied |-> strategy,
         recommendations |-> prioritized,
         expected_outcomes |->
             ExpectedOutcomes(prioritized, sensor_data, time_horizon),
         implementation_priority |->
             ImplementationPriority(prioritized,
                                    maintenance_result.maintenance_score)]

(* every window starts at the moment of the call *)
TimelineAllAtOnce(recommendations, current_time) ==
    [k \in 1..Len(recommendations) |->
        [recommendation_id |-> recommendations[k].id,
         start_time |-> current_time,
         end_time |-> current_time + recommendations[k].time_to_implement,
         duration_hours |-> recommendations[k].time_to_implement,
         difficulty |-> recommendations[k].difficulty]]

RECURSIVE TimelineFrom(_, _)
TimelineFrom(recommendations, current_time) ==
    IF recommendations = << >> THEN << >>
    ELSE <<[recommendation_id |-> Head(recommendations).id,
            start_time |-> current_time,
            end_time |-> current_time
                         + Head(recommendations).time_to_implement,
            duration_hours |-> Head(recommendations).time_to_implement,
            difficulty |-> Head(recommendations).difficulty]>>
         \o TimelineFrom(Tail(recommendations),
                current_time + Head(recommendations).time_to_implement)

(* _calculate_implementation_timeline: the top 5 laid end to end, in hours
   from the moment of the call *)
ImplementationTimeline(optimization_plan) ==
    TimelineFrom(Top(optimization_plan.recommendations, 5), 0)

(* _calculate_optimization_score, times 10 000 *)
OptimizationScore(optimization_plan) ==
    Min(optimization_plan.expected_outcomes.total_efficiency_gain * 40
        + optimization_plan.expected_outcomes.total_energy_savings_kwh * 3
        + optimization_plan.expected_outcomes.total_co2_reduction_tons * 3000,
        1000000)

(* _calculate_comprehensive_score, in hundredths *)
ComprehensiveScore(efficiency_result, maintenance_result, energy_result) ==
    Min(Get(efficiency_result, "predicted_efficiency", 80), 100) * 40
    + 100 * (IF Get(maintenance_result, "risk_level", "medium") = "low"
             THEN 30
             ELSE IF Get(maintenance_result, "risk_level", "medium")
                     = "medium"
             THEN 20 ELSE 10)
    + Min(Get(energy_result, "energy_savings", 0), 1000) * 3

default_time_horizon_hours == 24

(* what the unit coroutine returns once its three predictions are in *)
UnitResult(u, cs) ==
    IF op.kind = "batch"
    THEN [efficiency_prediction |-> cs[EffCall(u)].result,
          maintenance_prediction |-> cs[MaintCall(u)].result,
          energy_optimization |-> cs[EnergyCall(u)].result,
          comprehensive_score |->
              ComprehensiveScore(cs[EffCall(u)].result,
                                 cs[MaintCall(u)].result,
                                 cs[EnergyCall(u)].result)]
    ELSE LET optimization_plan ==
                 GenerateOptimizationPlan(units[u].sensor_data,
                                          cs[MaintCall(u)].result,
                                          cs[EnergyCall(u)].result,
                                          op.strategy,
                                          default_time_horizon_hours)
         IN  [unit_id |-> units[u].unit_id,
              optimization_strategy |-> op.strategy,
              predictions |-> [efficiency |-> cs[EffCall(u)].result,
                               maintenance |-> cs[MaintCall(u)].result,
                               energy |-> cs[EnergyCall(u)].result],
              optimization_plan |-> optimization_plan,
              implementation_timeline |->
                  ImplementationTimeline(optimization_plan),
              performance_metrics |->
                  [optimization_score |->
                       OptimizationScore(optimization_plan)]]

(* _extract_operational_data *)
OperationalData(sensor_data) ==
    [energy_consumption |-> Get(sensor_data, "energy_consumption", 0),
     renewable_energy_available |->
         Get(sensor_data, "renewable_energy_available", 70),
     renewable_usage |-> Get(sensor_data, "renewable_usage", 60),
     grid_usage |-> Get(sensor_data, "grid_usage", 40),
     peak_hours |-> Get(sensor_data, "peak_hours", 0),
     current_hour |-> Get(sensor_data, "current_hour", (now \div 3600) % 24)]

(* the list [9, 10, 11, 17, 18, 19], as one value *)
DefaultPeakHours == 9101719

(* _extract_energy_data *)
EnergyData(sensor_data) ==
    [energy_consumption |-> Get(sensor_data, "energy_consumption", 0),
     renewable_capacity |-> Get(sensor_data, "renewable_capacity", 300),
     grid_cost_per_kwh |-> Get(sensor_data, "grid_cost_per_kwh", 12),
     renewable_cost_per_kwh |-> Get(sensor_data, "renewable_cost_per_kwh", 8),
     peak_hours |-> Get(sensor_data, "peak_hours", DefaultPeakHours),
     current_hour |-> Get(sensor_data, "current_hour", (now \div 3600) % 24)]

RequiredSensors ==
    {"temperature", "pressure", "flow_rate", "energy_consumption"}

(* the inputs are not validated *)
ValidationSkipped(unit_id, sensor_data, strategy) == "none"

(* _validate_optimization_inputs: str(e) of the ValueError it raises, "none"
   when the inputs pass.  An empty unit_id is held as << >>. *)
ValidationError(unit_id, sensor_data, strategy) ==
    IF unit_id = << >> THEN "Valid unit_id is required"
    ELSE IF DOMAIN sensor_data = {}
    THEN "Valid sensor_data dictionary is required"
    ELSE IF strategy \notin Strategies THEN "Unknown optimization strategy"
    ELSE IF ~(RequiredSensors \subseteq DOMAIN sensor_data)
    THEN "Missing required sensor data"
    ELSE "none"

(* get_batch_predictions up to its await of gather: one task per unit *)
BatchCall(entries) ==
    /\ op.pc = "idle"
    /\ LoopFree
    /\ op' = [op EXCEPT !.kind = "batch", !.pc = "running",
                        !.entries = entries, !.limit = batch_concurrency,
                        !.start_time = now]
    /\ units' = [i \in 1..Len(entries) |->
          NewUnit(Get(entries[i], "unit_id", <<"unknown">>),
                  Get(entries[i], "sensor_data", << >>))]
    /\ calls' = [c \in 1..(3 * Len(entries)) |-> IdleCall]
    /\ ready' = ready \o [i \in 1..Len(entries) |-> <<"unit", i>>]
    /\ UNCHANGED <<now, cache_enabled, models, retrains, prediction_cache,
                   queue, running, writer, max_concurrent,
                   shutdown, gateway, engine>>

(* optimize_network up to its await of gather: the loop that builds the
   unit coroutines indexes each entry, so an entry without 'unit_id' or
   'sensor_data' raises KeyError out of the call *)
NetworkCall(entries, strategy) ==
    /\ op.pc = "idle"
    /\ LoopFree
    /\ IF \E i \in 1..Len(entries) :
             ~({"unit_id", "sensor_data"} \subseteq DOMAIN entries[i])
       THEN /\ op' = [op EXCEPT !.kind = "network", !.pc = "raised",
                                !.entries = entries, !.strategy = strategy,
                                !.start_time = now, !.error = "KeyError"]
            /\ UNCHANGED <<units, calls, ready>>
       ELSE /\ op' = [op EXCEPT !.kind = "network", !.pc = "running",
                                !.entries = entries, !.strategy = strategy,
                                !.limit = max_concurrent,
                                !.start_time = now]
            /\ units' = [i \in 1..Len(entries) |->
                  NewUnit(entries[i].unit_id, entries[i].sensor_data)]
            /\ calls' = [c \in 1..(3 * Len(entries)) |-> IdleCall]
            /\ ready' = ready \o [i \in 1..Len(entries) |-> <<"unit", i>>]
    /\ UNCHANGED <<now, cache_enabled, models, retrains, prediction_cache,
                   queue, running, writer, max_concurrent,
                   shutdown, gateway, engine>>

(* the loop runs the wake-up of predict coroutine c after its await:
   store, sweep, annotate, return; or log and re-raise.  The result
   dictionary stored in the cache is the object that is then annotated and
   returned.  A coroutine run as a task of gather reports to the gather;
   optimize_energy is awaited by the unit coroutine itself, which goes on
   to its end in the same step. *)
PredictResume(c) ==
    /\ ready # << >> /\ Head(ready) = <<"done", c>>
    /\ LoopFree
    /\ LET result == With(calls[c].futval, "processing_time_ms",
                          (now - calls[c].start_time) * 1000)
           key == CacheKey(calls[c].kind, calls[c].data)
           cache == CleanCache(CacheStore(prediction_cache, key, result))
           cs == IF calls[c].fut = "exception"
                 THEN [calls EXCEPT ![c] =
                          [@ EXCEPT !.pc = "raised", !.end_time = now]]
                 ELSE [calls EXCEPT ![c] =
                          [@ EXCEPT !.pc = "returned", !.result = result,
                                    !.stored = /\ key \in DOMAIN cache
                                               /\ cache[key].data = result,
                                    !.end_time = now]]
           after == IF op.kind = "none"
                    THEN [units |-> units, ready |-> Tail(ready)]
                    ELSE IF c # EnergyCall(UnitOf(c))
                    THEN Joined(units, Tail(ready), cs, c)
                    ELSE IF cs[c].pc = "raised"
                    THEN Finish(units, Tail(ready), UnitOf(c), TRUE,
                                cs[c].error, NoResult)
                    ELSE Finish(units, Tail(ready), UnitOf(c), FALSE, "none",
                                UnitResult(UnitOf(c), cs))
       IN  /\ calls' = cs
           /\ units' = after.units
           /\ ready' = after.ready
           /\ IF calls[c].fut = "exception"
              THEN /\ prediction_cache' = CacheAfterFailure(prediction_cache)
                   /\ writer' = writer
              ELSE /\ prediction_cache' = cache
                   /\ writer' = IF cache_enabled
                                THEN [k \in DOMAIN writer \cup {key} |->
                                         IF k = key THEN c ELSE writer[k]]
                                ELSE writer
    /\ UNCHANGED <<now, cache_enabled, models, retrains, queue, running,
                   op, max_concurrent,
                   shutdown, gateway, engine>>

(* limited_predict / limited_optimize: the loop runs the unit's task, which
   enters the semaphore or waits for it, then runs the unit coroutine up to
   its await of gather(efficiency, maintenance).
   optimize_unit_comprehensive validates its inputs first and raises before
   any prediction is started. *)
UnitStart(u) ==
    /\ ready # << >> /\ Head(ready) = <<"unit", u>>
    /\ LoopFree
    /\ LET invalid == IF op.kind = "network"
                      THEN ValidationError(units[u].unit_id,
                                           units[u].sensor_data, op.strategy)
                      ELSE "none"
           after == IF units[u].pc = "created" /\ ~SemaphoreFree(op.limit)
                    THEN [units |-> [units EXCEPT ![u] =
                                        [@ EXCEPT !.pc = "blocked"]],
                          ready |-> Tail(ready)]
                    ELSE IF invalid # "none"
                    THEN Finish(units, Tail(ready), u, TRUE, invalid, NoResult)
                    ELSE [units |-> [units EXCEPT ![u] =
                                        [@ EXCEPT !.pc = "gathering",
                                                  !.gather = "pending"]],
                          ready |-> Tail(ready) \o
                                    << <<"call", EffCall(u)>>,
                                       <<"call", MaintCall(u)>> >>]
       IN  units' = after.units /\ ready' = after.ready
    /\ UNCHANGED <<now, cache_enabled, models, retrains, prediction_cache,
                   calls, queue, running, writer, op, max_concurrent,
                   shutdown, gateway, engine>>

(* the loop runs the first step of a task gather created for
   predict_efficiency or predict_maintenance *)
ChildStart(c) ==
    /\ ready # << >> /\ Head(ready) = <<"call", c>>
    /\ LoopFree
    /\ LET u == UnitOf(c)
           r == PredictBegin(calls, queue, c,
                             IF c = EffCall(u) THEN "efficiency"
                             ELSE "maintenance",
                             units[u].sensor_data)
           after == Joined(units, Tail(ready), r.calls, c)
       IN  /\ calls' = r.calls
           /\ queue' = r.queue
           /\ units' = after.units
           /\ ready' = after.ready
    /\ UNCHANGED <<now, cache_enabled, models, retrains, prediction_cache,
                   running, writer, op, max_concurrent,
                   shutdown, gateway, engine>>

(* the loop runs the wake-up of the unit coroutine after gather: the first
   exception of its two tasks is raised (the other task is left running),
   or, with both results in, optimize_energy is awaited *)
UnitResume(u) ==
    /\ ready # << >> /\ Head(ready) = <<"resume", u>>
    /\ LoopFree
    /\ LET data == IF op.kind = "batch"
                   THEN OperationalData(units[u].sensor_data)
                   ELSE EnergyData(units[u].sensor_data)
           r == IF units[u].gather = "raised"
                THEN [calls |-> calls, queue |-> queue]
                ELSE PredictBegin(calls, queue, EnergyCall(u), "energy", data)
           g == r.calls[EnergyCall(u)]
           after == IF units[u].gather = "raised"
                    THEN Finish(units, Tail(ready), u, TRUE, units[u].error,
                                NoResult)
                    ELSE IF g.pc = "raised"
                    THEN Finish(units, Tail(ready), u, TRUE, g.error, NoResult)
                    ELSE IF g.pc = "returned"
                    THEN Finish(units, Tail(ready), u, FALSE, "none",
                                UnitResult(u, r.calls))
                    ELSE [units |-> [units EXCEPT ![u] =
                                        [@ EXCEPT !.pc = "energy"]],
                          ready |-> Tail(ready)]
       IN  /\ calls' = r.calls
           /\ queue' = r.queue
           /\ units' = after.units
           /\ ready' = after.ready
    /\ UNCHANGED <<now, cache_enabled, models, retrains, prediction_cache,
                   running, writer, op, max_concurrent,
                   shutdown, gateway, engine>>

AllUnitsDone == \A u \in DOMAIN units : units[u].pc = "done"

(* get_batch_predictions after gather(return_exceptions=True): one entry
   per unit, in input order *)
BatchFinish ==
    /\ op.kind = "batch" /\ op.pc = "running"
    /\ LoopFree
    /\ AllUnitsDone
    /\ op' = [op EXCEPT !.pc = "returned", !.result =
          [i \in 1..Len(units) |->
              LET unit_id == Get(op.entries[i], "unit_id", UnitName(i))
              IN  IF units[i].failed
                  THEN [unit_id |-> unit_id, success |-> FALSE,
                        error |-> units[i].error]
                  ELSE [unit_id |-> unit_id, success |-> TRUE,
                        predictions |-> units[i].result]]]
    /\ UNCHANGED <<now, cache_enabled, models, retrains, prediction_cache,
                   calls, queue, running, ready, writer, units,
                   max_concurrent,
                   shutdown, gateway, engine>>

(* the outcomes in the order in which the units ended *)
GatherResultsAsCompleted(us) ==
    [k \in 1..Len(us) |-> us[CHOOSE u \in 1..Len(us) : us[u].finished = k]]

(* asyncio.gather over limited_tasks with return_exceptions=True: the
   outcomes in the order of the awaitables passed in *)
GatherResults(us) == us

(* the dictionary {} *)
EmptySummary == << >>

(* _aggregate_network_results *)
AggregateNetworkResults(results) ==
    LET n == Len(results)
        outcomes(i) == results[i].optimization_plan.expected_outcomes
        priority(i) == results[i].optimization_plan.implementation_priority
        high == Cardinality({i \in 1..n : priority(i) = "high"})
        critical == Cardinality({i \in 1..n : priority(i) = "critical"})
    IN  IF results = << >> THEN EmptySummary
        ELSE [total_efficiency_gain |->
                  Sum([i \in 1..n |-> outcomes(i).total_efficiency_gain]),
              total_energy_savings_kwh |->
                  Sum([i \in 1..n |-> outcomes(i).total_energy_savings_kwh]),
              total_co2_reduction_tons |->
                  Sum([i \in 1..n |-> outcomes(i).total_co2_reduction_tons]),
              total_implementation_cost |->
                  Sum([i \in 1..n |->
                          outcomes(i).total_implementation_cost]),
              priority_distribution |->
                  [high_priority_units |-> high,
                   critical_priority_units |-> critical,
                   normal_priority_units |-> n - high - critical]]

(* optimize_network after gather(return_exceptions=True): partition into
   successes and failures, aggregate the successes *)
NetworkFinish ==
    /\ op.kind = "network" /\ op.pc = "running"
    /\ LoopFree
    /\ AllUnitsDone
    /\ LET ok == SelectSeq(GatherResults(units), LAMBDA x : ~x.failed)
           bad == SelectSeq(GatherResults(units), LAMBDA x : x.failed)
           successful_optimizations == [i \in 1..Len(ok) |-> ok[i].result]
           failed_optimizations ==
               [i \in 1..Len(bad) |->
                   [unit_id |-> bad[i].unit_id, error |-> bad[i].error]]
       IN  op' = [op EXCEPT !.pc = "returned", !.result =
              [network_optimization |->
                  [total_units |-> Len(op.entries),
                   successful_optimizations |-> Len(successful_optimizations),
                   failed_optimizations |-> Len(failed_optimizations),
                   optimization_strategy |-> op.strategy,
                   processing_time_ms |-> (now - op.start_time) * 1000],
               results |-> successful_optimizations,
               failures |-> failed_optimizations,
               network_summary |->
                   AggregateNetworkResults(successful_optimizations)]]
    /\ UNCHANGED <<now, cache_enabled, models, retrains, prediction_cache,
                   calls, queue, running, ready, writer, units,
                   max_concurrent,
                   shutdown, gateway, engine>>

----------------------------------------------------------------------------
(* The environment: the clock, and training or loading of a model *)

(* The code reads the clock only to compare an entry's age with the TTL and
   to measure a call's duration, so the clock is advanced between instants
   that realise every outcome of those comparisons: ages below, equal to and
   above the TTL. *)
Instants == {0, cache_ttl, cache_ttl + 1}

Tick(t) ==
    /\ t > now
    /\ now' = t
    /\ UNCHANGED <<cache_enabled, models, retrains, prediction_cache, calls,
                   queue, running, ready, writer, svars>>

(* train_efficiency_model / train_predictive_maintenance / load_models
   put a (new) model under the target's name *)
TrainModel(target) ==
    /\ models[target] = 0 \/ retrains < MaxRetrains
    /\ models' = [models EXCEPT ![target] = @ + 1]
    /\ retrains' = IF models[target] = 0 THEN retrains ELSE retrains + 1
    /\ UNCHANGED <<now, cache_enabled, prediction_cache, calls, queue,
                   running, ready, writer, svars>>

Services == {"prediction", "optimization"}

(* shutdown does not wait for the work the executor holds *)
ExecutorNeverWaits(q, active) == TRUE

(* executor.shutdown(wait=True) returns once its worker threads have run
   every work item it held and have exited *)
ExecutorDrained(q, active) == q = << >> /\ active = {}

(* PredictionService.shutdown is called, by its user or, for
   "optimization", by OptimizationService.shutdown after it has shut down
   the executor of its own, to which nothing is ever submitted.  The
   executor of the prediction service stops taking submissions and the
   caller waits. *)
ShutdownCall(service) ==
    /\ shutdown.stage = "open"
    /\ shutdown' =
          [stage |-> "waiting", caller |-> service,
           log |-> IF service = "optimization"
                   THEN <<"optimization executor", "prediction executor">>
                   ELSE <<"prediction executor">>,
           inflight |-> running \cup {queue[i] : i \in 1..Len(queue)}]
    /\ UNCHANGED <<now, cache_enabled, models, retrains, prediction_cache,
                   calls, queue, running, ready, writer, op, units,
                   max_concurrent, gateway, engine>>

(* the wait is over: the models are saved and shutdown returns *)
ShutdownReturn ==
    /\ shutdown.stage = "waiting"
    /\ ExecutorDrained(queue, running)
    /\ shutdown' = [shutdown EXCEPT !.stage = "closed",
                                    !.log = Append(@, "save_models")]
    /\ UNCHANGED <<now, cache_enabled, models, retrains, prediction_cache,
                   calls, queue, running, ready, writer, op, units,
                   max_concurrent, gateway, engine>>

----------------------------------------------------------------------------

Init ==
    /\ now = 0
    /\ cache_enabled \in BOOLEAN
    /\ models = [t \in Targets |-> 0]
    /\ retrains = 0
    /\ prediction_cache = << >>
    /\ calls = [c \in CallIds |-> IdleCall]
    /\ queue = << >>
    /\ running = {}
    /\ ready = << >>
    /\ writer = << >>
    /\ op = NoOp
    /\ units = << >>
    /\ max_concurrent = default_max_concurrent
    /\ shutdown = NoShutdown
    /\ gateway = NewGateway
    /\ engine = NewEngine

(* Callers issue calls one after the other or concurrently; call ids are
   handed out in order, and ReadingB is used only once ReadingA has been. *)
Next ==
    \/ \E c \in CallIds, kind \in Kinds, data \in Readings :
          /\ \A d \in CallIds : d < c => calls[d].pc # "idle"
          /\ data = ReadingB =>
                \E d \in CallIds :
                    calls[d].pc # "idle" /\ calls[d].data = ReadingA
          /\ PredictCall(c, kind, data)
    \/ WorkerStart
    \/ \E c \in CallIds : WorkerFinish(c)
    \/ \E c \in CallIds : PredictResume(c)
    \/ \E t \in Instants : Tick(t)
    \/ \E target \in Targets : TrainModel(target)
    \/ \E service \in Services : ShutdownCall(service)
    \/ ShutdownReturn

Spec == Init /\ [][Next]_vars

----------------------------------------------------------------------------
(* More concurrent predict calls than the executor has worker threads *)

ModelStates == {[t \in Targets |-> 0], [t \in Targets |-> 1]}

InitPool ==
    /\ now = 0
    /\ cache_enabled \in BOOLEAN
    /\ models \in ModelStates
    /\ retrains = 0
    /\ prediction_cache = << >>
    /\ calls = [c \in 1..NumPoolCalls |-> IdleCall]
    /\ queue = << >>
    /\ running = {}
    /\ ready = << >>
    /\ writer = << >>
    /\ op = NoOp
    /\ units = << >>
    /\ max_concurrent = default_max_concurrent
    /\ shutdown = NoShutdown
    /\ gateway = NewGateway
    /\ engine = NewEngine

NextPool ==
    \/ \E c \in DOMAIN calls, kind \in Kinds :
          /\ \A d \in DOMAIN calls : d < c => calls[d].pc # "idle"
          /\ PredictCall(c, kind, ReadingA)
    \/ WorkerStart
    \/ \E c \in DOMAIN calls : WorkerFinish(c)
    \/ \E c \in DOMAIN calls : PredictResume(c)

SpecPool == InitPool /\ [][NextPool]_vars

----------------------------------------------------------------------------
(* One get_batch_predictions call *)

(* the reading of unit 3 makes the inference raise *)
OneBadBatch ==
    [i \in 1..NumBatchUnits |->
        [unit_id |-> <<"u", i>>,
         sensor_data |-> IF i = 3 THEN ReadingBad ELSE ReadingA]]

(* entries without 'unit_id' or without 'sensor_data' *)
RaggedBatch ==
    <<[unit_id |-> <<"u", 1>>, sensor_data |-> ReadingA],
      [sensor_data |-> ReadingB],
      [unit_id |-> <<"u", 3>>]>>

BatchInputs == {OneBadBatch, RaggedBatch}

InitBatch ==
    /\ now = 0
    /\ cache_enabled = TRUE
    /\ models \in ModelStates
    /\ retrains = 0
    /\ prediction_cache = << >>
    /\ calls = << >>
    /\ queue = << >>
    /\ running = {}
    /\ ready = << >>
    /\ writer = << >>
    /\ op = NoOp
    /\ units = << >>
    /\ max_concurrent = default_max_concurrent
    /\ shutdown = NoShutdown
    /\ gateway = NewGateway
    /\ engine = NewEngine

NextBatch ==
    \/ \E entries \in BatchInputs : BatchCall(entries)
    \/ \E u \in DOMAIN units : UnitStart(u)
    \/ \E c \in DOMAIN calls : ChildStart(c)
    \/ \E u \in DOMAIN units : UnitResume(u)
    \/ WorkerStart
    \/ \E c \in DOMAIN calls : WorkerFinish(c)
    \/ \E c \in DOMAIN calls : PredictResume(c)
    \/ BatchFinish

SpecBatch == InitBatch /\ [][NextBatch]_vars

----------------------------------------------------------------------------
(* One optimize_network call *)

GoodNetwork ==
    [i \in 1..NumNetworkUnits |->
        [unit_id |-> <<"u", i>>, sensor_data |-> ReadingA]]

(* unit 2 fails: its reading makes the inference raise, or lacks a required
   sensor, or the entry has no 'sensor_data' *)
BadReadingNetwork ==
    [GoodNetwork EXCEPT ![2] = [unit_id |-> <<"u", 2>>, sensor_data |-> ReadingBad]]

PartialReadingNetwork ==
    [GoodNetwork EXCEPT ![2] =
        [unit_id |-> <<"u", 2>>, sensor_data |-> ReadingPartial]]

NoReadingNetwork ==
    [GoodNetwork EXCEPT ![2] = [unit_id |-> <<"u", 2>>]]

(* unit 2 is given an empty unit_id *)
EmptyIdNetwork ==
    [GoodNetwork EXCEPT ![2] = [unit_id |-> << >>, sensor_data |-> ReadingA]]

(* the reading of unit 2 lacks one of the required sensors *)
PartialNetworks ==
    {[GoodNetwork EXCEPT ![2] =
         [unit_id |-> <<"u", 2>>,
          sensor_data |-> [k \in DOMAIN ReadingA \ {sensor} |-> ReadingA[k]]]] :
     sensor \in RequiredSensors}

NetworkInputs ==
    {GoodNetwork, BadReadingNetwork, PartialReadingNetwork, NoReadingNetwork,
     EmptyIdNetwork} \cup PartialNetworks

InitNetwork ==
    /\ now = 0
    /\ cache_enabled = TRUE
    /\ models \in ModelStates
    /\ retrains = 0
    /\ prediction_cache = << >>
    /\ calls = << >>
    /\ queue = << >>
    /\ running = {}
    /\ ready = << >>
    /\ writer = << >>
    /\ op = NoOp
    /\ units = << >>
    /\ max_concurrent \in 1..MaxConcurrentArg
    /\ shutdown = NoShutdown
    /\ gateway = NewGateway
    /\ engine = NewEngine

NextNetwork ==
    \/ \E entries \in NetworkInputs, strategy \in {"balanced", "fastest"} :
          NetworkCall(entries, strategy)
    \/ \E u \in DOMAIN units : UnitStart(u)
    \/ \E c \in DOMAIN calls : ChildStart(c)
    \/ \E u \in DOMAIN units : UnitResume(u)
    \/ WorkerStart
    \/ \E c \in DOMAIN calls : WorkerFinish(c)
    \/ \E c \in DOMAIN calls : PredictResume(c)
    \/ NetworkFinish

SpecNetwork == InitNetwork /\ [][NextNetwork]_vars

----------------------------------------------------------------------------
(* The cache of the prediction service under predict_efficiency calls alone,
   with the efficiency model trained: three calls, for two readings the
   model accepts and one on which the inference raises *)

CacheCallIds == 1..NumCacheCalls

CacheReadings == {ReadingA, ReadingB, ReadingBad}

InitCache ==
    /\ now = 0
    /\ cache_enabled \in BOOLEAN
    /\ models = [efficiency |-> 1, maintenance |-> 0]
    /\ retrains = 0
    /\ prediction_cache = << >>
    /\ calls = [c \in CacheCallIds |-> IdleCall]
    /\ queue = << >>
    /\ running = {}
    /\ ready = << >>
    /\ writer = << >>
    /\ op = NoOp
    /\ units = << >>
    /\ max_concurrent = default_max_concurrent
    /\ shutdown = NoShutdown
    /\ gateway = NewGateway
    /\ engine = NewEngine

NextCache ==
    \/ \E c \in CacheCallIds, data \in CacheReadings :
          /\ \A d \in CacheCallIds : d < c => calls[d].pc # "idle"
          /\ PredictCall(c, "efficiency", data)
    \/ WorkerStart
    \/ \E c \in CacheCallIds : WorkerFinish(c)
    \/ \E c \in CacheCallIds : PredictResume(c)
    \/ \E t \in Instants : Tick(t)

SpecCache == InitCache /\ [][NextCache]_vars

----------------------------------------------------------------------------
(* The recommendation engine applied to given inputs *)

(* candidates as the three generators build them, and two more that differ
   in their identity only, so that their scores tie *)
CandidatePool ==
    {Recommendation("temp_optimization", "efficiency", 250, 350, 120, 0,
                    "medium", 2, 0, "low"),
     Recommendation("flow_optimization", "efficiency", 120, 200, 60, 0,
                    "low", 1, 0, "low"),
     Recommendation("peak_shaving", "energy", 80, 450, 180, 0, "high", 24,
                    2000, "medium"),
     Recommendation("electrical_maintenance", "maintenance", 120, 250, 80,
                    35, "high", 20, 2500, "high"),
     Recommendation("tie_a", "efficiency", 120, 200, 60, 0, "low", 1, 0,
                    "low"),
     Recommendation("tie_b", "efficiency", 120, 200, 60, 0, "low", 1, 0,
                    "low")}

CandidateLists ==
    UNION {[1..n -> CandidatePool] : n \in 0..MaxCandidates}

(* _prioritize_recommendations(recommendations, weights) with the weights
   of a strategy *)
PrioritizeCall(recommendations, strategy) ==
    /\ op.pc = "idle"
    /\ op' = [op EXCEPT !.kind = "prioritize", !.pc = "returned",
                        !.entries = recommendations, !.strategy = strategy,
                        !.result = PrioritizeRecommendations(
                            recommendations,
                            Templates[strategy].priority_weights)]
    /\ UNCHANGED <<now, cache_enabled, models, retrains, prediction_cache,
                   calls, queue, running, ready, writer, units,
                   max_concurrent,
                   shutdown, gateway, engine>>

(* readings that pass validation: the sample reading, one of a unit with
   little renewable capacity, and one that triggers every generator *)
LowRenewableReading == With(ReadingA, "renewable_capacity", 100)

RichReading ==
    [energy_consumption |-> 850, flow_rate |-> 1400, pressure |-> 60,
     temperature |-> 75, vibration |-> 4, motor_current |-> 25,
     maintenance_days_since |-> 200]

(* a reading that passes validation, which asks only that the four
   required sensors be present: the renewable capacity reported is negative *)
NegativeRenewableReading == With(ReadingA, "renewable_capacity", -1000)

PlanReadings ==
    {ReadingA, LowRenewableReading, RichReading, NegativeRenewableReading}

(* an hour of the day inside the peak hours, in seconds *)
PeakInstant == 9 * 3600

(* optimize_unit_comprehensive from the results of its three predictions
   on: the plan, then its timeline *)
PlanCall(sensor_data, strategy) ==
    /\ op.pc = "idle"
    /\ ValidationError(<<"u", 1>>, sensor_data, strategy) = "none"
    /\ LET maintenance_result == EstimatorResult("maintenance", sensor_data)
           energy_result ==
               EstimatorResult("energy", EnergyData(sensor_data))
           optimization_plan ==
               GenerateOptimizationPlan(sensor_data, maintenance_result,
                                        energy_result, strategy,
                                        default_time_horizon_hours)
       IN  op' = [op EXCEPT !.kind = "plan", !.pc = "returned",
                            !.entries = <<sensor_data>>,
                            !.strategy = strategy,
                            !.result =
                  [predictions |-> [maintenance |-> maintenance_result,
                                    energy |-> energy_result],
                   optimization_plan |-> optimization_plan,
                   implementation_timeline |->
                       ImplementationTimeline(optimization_plan),
                   performance_metrics |->
                       [optimization_score |->
                            OptimizationScore(optimization_plan)]]]
    /\ UNCHANGED <<now, cache_enabled, models, retrains, prediction_cache,
                   calls, queue, running, ready, writer, units,
                   max_concurrent,
                   shutdown, gateway, engine>>

(* the maintenance model held gives a score of 0.3, 0.6 or 0.9 *)
InitPlan ==
    /\ now \in {0, PeakInstant}
    /\ cache_enabled = TRUE
    /\ models \in {[efficiency |-> 1, maintenance |-> m] : m \in 1..3}
    /\ retrains = 0
    /\ prediction_cache = << >>
    /\ calls = << >>
    /\ queue = << >>
    /\ running = {}
    /\ ready = << >>
    /\ writer = << >>
    /\ op = NoOp
    /\ units = << >>
    /\ max_concurrent = default_max_concurrent
    /\ shutdown = NoShutdown
    /\ gateway = NewGateway
    /\ engine = NewEngine

NextPlan ==
    \/ \E recommendations \in CandidateLists, strategy \in Strategies :
          PrioritizeCall(recommendations, strategy)
    \/ \E sensor_data \in PlanReadings, strategy \in Strategies :
          PlanCall(sensor_data, strategy)

SpecPlan == InitPlan /\ [][NextPlan]_vars

----------------------------------------------------------------------------
(* IoTGateway: the MQTT client thread, which runs _handle_sensor_data for
   each message, and the flush_buffers thread, which runs _flush_buffer
   every flush_interval.  Nothing locks data_buffer: a step here is one
   read or one write of it, and the threads interleave between steps. *)

GatewayThreads == {"mqtt", "flush"}

(* thread t leaves _flush_buffer (or the handler): the MQTT thread waits
   for the next message, the flush thread sleeps *)
Return(g, t) ==
    [g EXCEPT !.threads[t] =
        IdleThread(IF t = "mqtt" THEN "idle" ELSE "sleep")]

(* an exception in thread t: _handle_sensor_data catches and logs it, the
   loop of flush_buffers does not and its thread ends *)
Raise(g, t) ==
    [g EXCEPT !.threads[t] =
        IdleThread(IF t = "mqtt" THEN "idle" ELSE "dead")]

Goto(g, t, pc) == [g EXCEPT !.threads[t].pc = pc]

(* the readings in the buffer: those of the list held for the sensor in the
   dict held for the unit *)
Held(g) ==
    IF g.data_buffer = 0 \/ g.dicts[g.data_buffer] = 0 THEN {}
    ELSE {g.lists[g.dicts[g.data_buffer]][i] :
             i \in 1..Len(g.lists[g.dicts[g.data_buffer]])}

(* start(): is_running = True, then _start_background_tasks *)
GatewayStart ==
    /\ gateway.threads.flush.pc = "off"
    /\ gateway' = [gateway EXCEPT !.is_running = TRUE,
                                  !.threads.flush.pc = "sleep"]
    /\ UNCHANGED <<core, engine>>

(* stop(): is_running = False, the MQTT clients are disconnected *)
GatewayStop ==
    /\ gateway.is_running
    /\ gateway' = [gateway EXCEPT !.is_running = FALSE]
    /\ UNCHANGED <<core, engine>>

(* _handle_sensor_data: a message arrives; _validate_sensor_data passes it
   on to _buffer_sensor_data or drops it *)
Receive(valid) ==
    /\ gateway.is_running
    /\ gateway.threads.mqtt.pc = "idle"
    /\ gateway.received < MaxReadings
    /\ gateway' =
          [gateway EXCEPT !.received = @ + 1,
                          !.threads.mqtt =
                              IF valid
                              THEN [@ EXCEPT !.pc = "check_unit",
                                             !.r = gateway.received + 1]
                              ELSE @]
    /\ UNCHANGED <<core, engine>>

(* if unit_id not in self.data_buffer *)
BufferCheckUnit ==
    /\ gateway.threads.mqtt.pc = "check_unit"
    /\ gateway' = Goto(gateway, "mqtt",
                       IF gateway.data_buffer = 0 THEN "make_unit"
                       ELSE "check_sensor")
    /\ UNCHANGED <<core, engine>>

(* self.data_buffer[unit_id] = {} *)
BufferMakeUnit ==
    /\ gateway.threads.mqtt.pc = "make_unit"
    /\ gateway' = Goto([gateway EXCEPT
                           !.dicts = Append(@, 0),
                           !.data_buffer = Len(gateway.dicts) + 1],
                       "mqtt", "check_sensor")
    /\ UNCHANGED <<core, engine>>

(* if sensor_id not in self.data_buffer[unit_id] *)
BufferCheckSensor ==
    /\ gateway.threads.mqtt.pc = "check_sensor"
    /\ gateway' =
          IF gateway.data_buffer = 0 THEN Raise(gateway, "mqtt")
          ELSE Goto(gateway, "mqtt",
                    IF gateway.dicts[gateway.data_buffer] = 0
                    THEN "make_sensor" ELSE "load")
    /\ UNCHANGED <<core, engine>>

(* self.data_buffer[unit_id][sensor_id] = [] *)
BufferMakeSensor ==
    /\ gateway.threads.mqtt.pc = "make_sensor"
    /\ gateway' =
          IF gateway.data_buffer = 0 THEN Raise(gateway, "mqtt")
          ELSE Goto([gateway EXCEPT
                        !.lists = Append(@, << >>),
                        !.dicts[gateway.data_buffer] =
                            Len(gateway.lists) + 1],
                    "mqtt", "load")
    /\ UNCHANGED <<core, engine>>

(* self.data_buffer[unit_id][sensor_id], the list to append to *)
BufferLoad ==
    /\ gateway.threads.mqtt.pc = "load"
    /\ gateway' =
          IF gateway.data_buffer = 0
             \/ gateway.dicts[gateway.data_buffer] = 0
          THEN Raise(gateway, "mqtt")
          ELSE [gateway EXCEPT
                   !.threads.mqtt.pc = "append",
                   !.threads.mqtt.readings =
                       gateway.dicts[gateway.data_buffer]]
    /\ UNCHANGED <<core, engine>>

(* .append(data) *)
BufferAppend ==
    /\ gateway.threads.mqtt.pc = "append"
    /\ gateway' =
          [gateway EXCEPT
              !.lists[gateway.threads.mqtt.readings] =
                  Append(@, gateway.threads.mqtt.r),
              !.buffered = @ \cup {gateway.threads.mqtt.r},
              !.threads.mqtt.pc = "count"]
    /\ UNCHANGED <<core, engine>>

(* total_readings = sum(len(readings) ...); at buffer_size the handler
   flushes the unit itself *)
BufferCount ==
    /\ gateway.threads.mqtt.pc = "count"
    /\ gateway' =
          IF gateway.data_buffer = 0 THEN Raise(gateway, "mqtt")
          ELSE IF (IF gateway.dicts[gateway.data_buffer] = 0 THEN 0
                   ELSE Len(gateway.lists[gateway.dicts[gateway.data_buffer]]))
                  >= buffer_size
          THEN Goto(gateway, "mqtt", "f_check")
          ELSE Return(gateway, "mqtt")
    /\ UNCHANGED <<core, engine>>

(* flush_buffers: while self.is_running, for unit_id in
   list(self.data_buffer.keys()): _flush_buffer(unit_id); then sleep *)
FlushWake ==
    /\ gateway.threads.flush.pc = "sleep"
    /\ gateway.rounds < MaxFlushes
    /\ gateway' =
          IF ~gateway.is_running
          THEN [gateway EXCEPT !.threads.flush.pc = "ended"]
          ELSE [gateway EXCEPT
                   !.rounds = @ + 1,
                   !.threads.flush.pc =
                       IF gateway.data_buffer = 0 THEN "sleep"
                       ELSE "f_check"]
    /\ UNCHANGED <<core, engine>>

(* _flush_buffer: if unit_id not in self.data_buffer: return *)
FlushCheck(t) ==
    /\ gateway.threads[t].pc = "f_check"
    /\ gateway' = IF gateway.data_buffer = 0 THEN Return(gateway, t)
                  ELSE Goto(gateway, t, "f_get")
    /\ UNCHANGED <<core, engine>>

(* unit_data = self.data_buffer[unit_id]; for ... in unit_data.items():
   the iterator notes the size of the dict *)
FlushGet(t) ==
    /\ gateway.threads[t].pc = "f_get"
    /\ gateway' =
          IF gateway.data_buffer = 0 THEN Raise(gateway, t)
          ELSE [gateway EXCEPT
                   !.threads[t].pc = "f_next",
                   !.threads[t].unit_data = gateway.data_buffer,
                   !.threads[t].visited = FALSE,
                   !.threads[t].size =
                       IF gateway.dicts[gateway.data_buffer] = 0 THEN 0
                       ELSE 1]
    /\ UNCHANGED <<core, engine>>

(* the next item of unit_data.items(), RuntimeError if the dict changed
   size; then `if readings:` *)
FlushNext(t) ==
    /\ gateway.threads[t].pc = "f_next"
    /\ LET th == gateway.threads[t]
           l == gateway.dicts[th.unit_data]
       IN  gateway' =
              IF (IF l = 0 THEN 0 ELSE 1) # th.size THEN Raise(gateway, t)
              ELSE IF th.size = 1 /\ ~th.visited
              THEN [gateway EXCEPT
                       !.threads[t].visited = TRUE,
                       !.threads[t].readings = l,
                       !.threads[t].idx = 0,
                       !.threads[t].pc =
                           IF gateway.lists[l] # << >> THEN "f_send"
                           ELSE "f_next"]
              ELSE Goto(gateway, t, "f_build")
    /\ UNCHANGED <<core, engine>>

(* _send_sensor_readings: for reading in readings, over the list itself;
   _send_single_reading posts it and the backend answers 200 or not.  When
   the loop is over the readings were sent and the list is to be cleared *)
FlushSend(t, ok) ==
    /\ gateway.threads[t].pc = "f_send"
    /\ LET th == gateway.threads[t]
       IN  gateway' =
              IF th.idx >= Len(gateway.lists[th.readings])
              THEN Goto(gateway, t, "f_clear")
              ELSE IF ok
              THEN [gateway EXCEPT
                       !.sent = Append(@, gateway.lists[th.readings]
                                              [th.idx + 1]),
                       !.threads[t].idx = @ + 1]
              ELSE Goto(gateway, t, "f_next")
    /\ UNCHANGED <<core, engine>>

(* unit_data[sensor_id] = [] *)
FlushClear(t) ==
    /\ gateway.threads[t].pc = "f_clear"
    /\ gateway' =
          Goto([gateway EXCEPT
                   !.lists = Append(@, << >>),
                   !.dicts[gateway.threads[t].unit_data] =
                       Len(gateway.lists) + 1],
               t, "f_next")
    /\ UNCHANGED <<core, engine>>

(* {sensor_id: readings for sensor_id, readings in
   self.data_buffer[unit_id].items() if readings} *)
FlushBuild(t) ==
    /\ gateway.threads[t].pc = "f_build"
    /\ gateway' =
          IF gateway.data_buffer = 0 THEN Raise(gateway, t)
          ELSE LET l == gateway.dicts[gateway.data_buffer]
               IN  [gateway EXCEPT
                       !.threads[t].pc = "f_assign",
                       !.threads[t].fresh =
                           IF l # 0 /\ gateway.lists[l] # << >> THEN l
                           ELSE 0]
    /\ UNCHANGED <<core, engine>>

(* self.data_buffer[unit_id] = the dict just built *)
FlushAssign(t) ==
    /\ gateway.threads[t].pc = "f_assign"
    /\ gateway' =
          Goto([gateway EXCEPT
                   !.dicts = Append(@, gateway.threads[t].fresh),
                   !.data_buffer = Len(gateway.dicts) + 1],
               t, "f_test")
    /\ UNCHANGED <<core, engine>>

(* if not self.data_buffer[unit_id] *)
FlushTest(t) ==
    /\ gateway.threads[t].pc = "f_test"
    /\ gateway' =
          IF gateway.data_buffer = 0 THEN Raise(gateway, t)
          ELSE IF gateway.dicts[gateway.data_buffer] = 0
          THEN Goto(gateway, t, "f_del")
          ELSE Return(gateway, t)
    /\ UNCHANGED <<core, engine>>

(* del self.data_buffer[unit_id] *)
FlushDelete(t) ==
    /\ gateway.threads[t].pc = "f_del"
    /\ gateway' =
          IF gateway.data_buffer = 0 THEN Raise(gateway, t)
          ELSE Return([gateway EXCEPT !.data_buffer = 0], t)
    /\ UNCHANGED <<core, engine>>

InitGateway ==
    /\ now = 0
    /\ cache_enabled = TRUE
    /\ models = [t \in Targets |-> 0]
    /\ retrains = 0
    /\ prediction_cache = << >>
    /\ calls = << >>
    /\ queue = << >>
    /\ running = {}
    /\ ready = << >>
    /\ writer = << >>
    /\ op = NoOp
    /\ units = << >>
    /\ max_concurrent = default_max_concurrent
    /\ shutdown = NoShutdown
    /\ gateway = NewGateway
    /\ engine = NewEngine

NextGateway ==
    \/ GatewayStart
    \/ GatewayStop
    \/ \E valid \in BOOLEAN : Receive(valid)
    \/ BufferCheckUnit
    \/ BufferMakeUnit
    \/ BufferCheckSensor
    \/ BufferMakeSensor
    \/ BufferLoad
    \/ BufferAppend
    \/ BufferCount
    \/ FlushWake
    \/ \E t \in GatewayThreads : FlushCheck(t)
    \/ \E t \in GatewayThreads : FlushGet(t)
    \/ \E t \in GatewayThreads : FlushNext(t)
    \/ \E t \in GatewayThreads, ok \in BOOLEAN : FlushSend(t, ok)
    \/ \E t \in GatewayThreads : FlushClear(t)
    \/ \E t \in GatewayThreads : FlushBuild(t)
    \/ \E t \in GatewayThreads : FlushAssign(t)
    \/ \E t \in GatewayThreads : FlushTest(t)
    \/ \E t \in GatewayThreads : FlushDelete(t)

SpecGateway == InitGateway /\ [][NextGateway]_vars

----------------------------------------------------------------------------
(* SimulationEngine: run_scenario and the trigger_event threads it starts.
   Times are minutes of the simulation clock; real_time_factor is 1. *)

(* _create_default_scenarios: the scenarios by key, each with its display
   name, its duration and its system events *)
Scenarios ==
    [normal_operation |->
        [name |-> "Normal Operation", duration_minutes |-> 60,
         system_events |-> << >>],
     maintenance_scenario |->
        [name |-> "Scheduled Maintenance", duration_minutes |-> 30,
         system_events |-> <<[time |-> 5, type |-> "maintenance_start"],
                             [time |-> 25, type |-> "maintenance_end"]>>],
     failure_scenario |->
        [name |-> "Equipment Failure", duration_minutes |-> 45,
         system_events |-> <<[time |-> 10, type |-> "sensor_failure"],
                             [time |-> 20, type |-> "system_alert"],
                             [time |-> 35, type |-> "recovery"]>>],
     peak_load |->
        [name |-> "Peak Load Operation", duration_minutes |-> 40,
         system_events |-> <<[time |-> 5, type |-> "load_increase"],
                             [time |-> 30, type |-> "load_decrease"]>>]]

(* trigger_event reads event_time, a variable of the enclosing loop, when
   its thread gets to time.sleep: the value is that of its own event or, if
   the loop has gone on by then, of a later one *)
SleepTimes(events) ==
    {d \in [1..Len(events) -> {events[j].time : j \in 1..Len(events)}] :
        \A i \in 1..Len(events) :
            \E j \in i..Len(events) : d[i] = events[j].time}

(* if self.is_running and self.scenario_active == scenario['name'] *)
StillActive(scenario_name) ==
    engine.is_running /\ engine.scenario_active = Scenarios[scenario_name].name

(* the instants at which a sleeping thread is due *)
Due ==
    {engine.timers[k].wake_at :
        k \in {k \in 1..Len(engine.timers) : engine.timers[k].pc = "sleeping"}}
    \cup {engine.runs[i].until :
        i \in {i \in 1..Len(engine.runs) : engine.runs[i].pc = "sleeping"}}

(* start_simulation; the engine is started once, as main does, so that an
   engine that is running has been running since it was started *)
StartSimulation ==
    /\ ~engine.started
    /\ engine' = [engine EXCEPT !.is_running = TRUE, !.started = TRUE]
    /\ UNCHANGED <<core, gateway>>

(* stop_simulation *)
StopSimulation ==
    /\ engine.is_running
    /\ engine' = [engine EXCEPT !.is_running = FALSE]
    /\ UNCHANGED <<core, gateway>>

(* run_scenario up to its time.sleep: the scenario becomes the active one
   and _schedule_scenario_events starts one thread per system event *)
RunScenario(scenario_name, sleeps) ==
    /\ Len(engine.runs) < MaxRuns
    /\ LET scenario == Scenarios[scenario_name]
           run == Len(engine.runs) + 1
       IN  engine' =
              [engine EXCEPT
                  !.scenario_active = scenario_name,
                  !.runs = Append(@,
                      [scenario_name |-> scenario_name, pc |-> "sleeping",
                       start |-> engine.clock,
                       until |-> engine.clock + scenario.duration_minutes,
                       running_at_start |-> engine.is_running]),
                  !.timers = @ \o
                      [e \in 1..Len(scenario.system_events) |->
                          [run |-> run, event |-> e, pc |-> "sleeping",
                           wake_at |-> engine.clock + sleeps[e]]]]
    /\ UNCHANGED <<core, gateway>>

(* trigger_event after its sleep *)
TriggerEvent(k) ==
    /\ engine.timers[k].pc = "sleeping"
    /\ engine.clock >= engine.timers[k].wake_at
    /\ engine' =
          [engine EXCEPT
              !.timers[k].pc = "done",
              !.triggered =
                  IF StillActive(engine.runs[engine.timers[k].run].scenario_name)
                  THEN Append(@, [run |-> engine.timers[k].run,
                                  event |-> engine.timers[k].event,
                                  at |-> engine.clock])
                  ELSE @]
    /\ UNCHANGED <<core, gateway>>

(* run_scenario after its sleep: settings are reset and no scenario is
   active *)
ScenarioEnd(i) ==
    /\ engine.runs[i].pc = "sleeping"
    /\ engine.clock >= engine.runs[i].until
    /\ engine' = [engine EXCEPT !.runs[i].pc = "done",
                                !.scenario_active = "none",
                                !.scenarios_executed = @ + 1]
    /\ UNCHANGED <<core, gateway>>

(* time passes, up to the instant the next sleeper is due; a thread that
   is due runs before time goes on *)
EngineTick ==
    /\ Due # {}
    /\ \A t \in Due : t > engine.clock
    /\ engine' = [engine EXCEPT
                     !.clock = CHOOSE t \in Due : \A x \in Due : t <= x]
    /\ UNCHANGED <<core, gateway>>

InitEngine ==
    /\ now = 0
    /\ cache_enabled = TRUE
    /\ models = [t \in Targets |-> 0]
    /\ retrains = 0
    /\ prediction_cache = << >>
    /\ calls = << >>
    /\ queue = << >>
    /\ running = {}
    /\ ready = << >>
    /\ writer = << >>
    /\ op = NoOp
    /\ units = << >>
    /\ max_concurrent = default_max_concurrent
    /\ shutdown = NoShutdown
    /\ gateway = NewGateway
    /\ engine = NewEngine

NextEngine ==
    \/ StartSimulation
    \/ StopSimulation
    \/ \E scenario_name \in DOMAIN Scenarios :
          \E sleeps \in SleepTimes(Scenarios[scenario_name].system_events) :
              RunScenario(scenario_name, sleeps)
    \/ \E k \in 1..Len(engine.timers) : TriggerEvent(k)
    \/ \E i \in 1..Len(engine.runs) : ScenarioEnd(i)
    \/ EngineTick

SpecEngine == InitEngine /\ [][NextEngine]_vars

----------------------------------------------------------------------------
(* Properties of the predict calls, checked under Spec *)

(* C1: for each of predict_efficiency, predict_maintenance and
   optimize_energy, a call that misses the cache while the estimator is
   ready dispatches the inference onto the worker pool, does not raise, and
   when it has returned its result is the estimator's and is stored in the
   cache under the call's key. *)
C1_MissDispatchesStoresReturns ==
    \A c \in DOMAIN calls :
        (calls[c].pc # "idle" /\ ~calls[c].hit /\ calls[c].estimator_ready) =>
            /\ calls[c].dispatched
            /\ calls[c].pc # "raised"
            /\ calls[c].pc = "returned" =>
                  /\ calls[c].result # NoResult
                  /\ cache_enabled => calls[c].stored

(* C2: with caching enabled, a predict_efficiency call issued after an
   earlier call for the same reading has completed (and stored its result),
   less than the TTL after that completion, returns the earlier call's
   payload and does not go to the estimator. *)
C2_RepeatWithinTtlServedFromCache ==
    cache_enabled =>
        \A c \in DOMAIN calls :
            LET w == calls[c].seen
            IN  (/\ calls[c].pc # "idle"
                 /\ calls[c].kind = "efficiency"
                 /\ w # 0
                 /\ calls[c].start_time - calls[w].end_time < cache_ttl) =>
                    /\ calls[c].hit
                    /\ ~calls[c].dispatched
                    /\ calls[c].pc = "returned"
                    /\ calls[c].result = calls[w].result
                    /\ calls[c].data = calls[w].data

(* a second call served from the cache some time after the first returned *)
C2_Witness ==
    \E c \in DOMAIN calls :
        /\ calls[c].hit
        /\ calls[c].kind = "efficiency"
        /\ calls[c].seen # 0
        /\ calls[c].start_time > calls[calls[c].seen].end_time

(* C9: a call that finds an entry older than the TTL does not return it: it
   goes to the estimator, and what it returns is a result inferred after
   the call started, not the cached one.  (The service is in operation: a
   call made after shutdown has no executor to recompute on.) *)
C9_StaleEntryRecomputed ==
    \A c \in DOMAIN calls :
        LET w == calls[c].seen
        IN  (/\ calls[c].pc # "idle"
             /\ ~calls[c].after_shutdown
             /\ w # 0
             /\ calls[c].start_time - calls[w].end_time > cache_ttl) =>
                /\ ~calls[c].hit
                /\ calls[c].dispatched
                /\ calls[c].pc = "returned" =>
                      /\ calls[c].result.timestamp >= calls[c].start_time
                      /\ calls[c].result # calls[w].result

(* the model was replaced between the two calls, and the call made after
   the TTL returned the new model's prediction *)
C9_Witness ==
    \E c \in DOMAIN calls :
        LET w == calls[c].seen
        IN  /\ w # 0
            /\ calls[c].start_time - calls[w].end_time > cache_ttl
            /\ calls[c].pc = "returned"
            /\ calls[w].result.predicted_efficiency = 1
            /\ calls[c].result.predicted_efficiency = 2

(* C10: a cache entry holds a result of the kind its key names, and a call
   served from the cache gets a result of its own kind, whatever identical
   maps the other kinds were called with. *)
C10_KindsNeverShareEntries ==
    /\ \A k \in DOMAIN prediction_cache : prediction_cache[k].data.kind = k[1]
    /\ \A c \in DOMAIN calls :
          calls[c].hit => calls[c].result.kind = calls[c].kind

(* predict_maintenance was called with the map of a predict_efficiency
   call whose entry was fresh in the cache, and was not served from it *)
C10_Witness ==
    /\ cache_enabled
    /\ \E c, d \in DOMAIN calls :
          /\ calls[d].kind = "efficiency" /\ calls[d].stored
          /\ calls[c].kind = "maintenance" /\ calls[c].pc # "idle"
          /\ calls[c].data = calls[d].data
          /\ calls[d].end_time < calls[c].start_time
          /\ calls[c].start_time - calls[d].end_time < cache_ttl
          /\ ~calls[c].hit

----------------------------------------------------------------------------
(* Properties of the concurrency limits and of the batch / network calls *)

(* C6: however many predict calls are in progress, the estimator calls
   executing at one time on the service's executor never exceed
   max_workers (4).  Checked under SpecPool. *)
C6_InferencesWithinPool == Cardinality(running) <= max_workers

(* every worker thread is busy and a further inference waits in the
   executor's queue *)
C6_Witness == Cardinality(running) = max_workers /\ queue # << >>

(* C8: during get_batch_predictions at most 5 units are inside their
   comprehensive prediction at any moment, and at the same time the
   estimator calls executing never exceed the worker pool.  Checked under
   SpecBatch. *)
C8_BatchWithinBothLimits ==
    op.kind = "batch" =>
        /\ Cardinality(InFlight) <= batch_concurrency
        /\ Cardinality(running) <= max_workers

(* five units in flight with a sixth waiting for the semaphore, while all
   worker threads are busy and a further inference is queued *)
C8_Witness ==
    /\ op.kind = "batch"
    /\ Cardinality(InFlight) = batch_concurrency
    /\ \E u \in DOMAIN units : units[u].pc = "blocked"
    /\ Cardinality(running) = max_workers
    /\ queue # << >>

(* C7: during optimize_network at most max_concurrent_optimizations unit
   optimizations have started and not finished at any moment.  Checked
   under SpecNetwork. *)
C7_NetworkWithinLimit ==
    op.kind = "network" => Cardinality(InFlight) <= max_concurrent

(* as many units in flight as the limit (above 1) allows, and another unit
   waiting for the semaphore *)
C7_Witness ==
    /\ op.kind = "network"
    /\ max_concurrent > 1
    /\ Cardinality(InFlight) = max_concurrent
    /\ \E u \in DOMAIN units : units[u].pc = "blocked"

(* C3: get_batch_predictions returns (no exception escapes) one entry per
   input unit, in input order; a unit whose three predictions succeed for
   its reading (valid values, estimator ready) appears with success = true,
   and a unit with a prediction that raises appears with success = false
   and the error.  Checked under SpecBatch. *)
C3_BatchIsolatesFailures ==
    (op.kind = "batch" /\ op.pc \in {"returned", "raised"}) =>
        /\ op.pc = "returned"
        /\ Len(op.result) = Len(op.entries)
        /\ \A i \in 1..Len(op.entries) :
              LET data == Get(op.entries[i], "sensor_data", << >>)
                  raises == \/ EstimatorRaises("efficiency", data)
                            \/ EstimatorRaises("maintenance", data)
                            \/ EstimatorRaises("energy",
                                               OperationalData(data))
              IN  /\ op.result[i].unit_id =
                         Get(op.entries[i], "unit_id", UnitName(i))
                  /\ op.result[i].success = ~raises
                  /\ raises => op.result[i].error # "none"

(* C4: optimize_network never raises because of one unit: it returns, every
   input unit is either in results or in failures, and a unit whose entry
   or optimization is in error is in failures as {unit_id, error}.  Checked
   under SpecNetwork. *)
C4_NetworkIsolatesFailures ==
    (op.kind = "network" /\ op.pc \in {"returned", "raised"}) =>
        /\ op.pc = "returned"
        /\ Len(op.result.results) + Len(op.result.failures) =
               Len(op.entries)
        /\ \A u \in DOMAIN units :
              units[u].failed =>
                  \E j \in 1..Len(op.result.failures) :
                      op.result.failures[j] =
                          [unit_id |-> op.entries[u].unit_id,
                           error |-> units[u].error]

(* C5: optimize_network reports total_units = successful + failed = number
   of input units, failed_optimizations is the number of units that fail
   (input rejected by validation, or a prediction that raises for the
   unit's reading), and every total of network_summary is the sum of that
   total over the successful units' results only.  Checked under SpecNetwork. *)
C5_NetworkCounts ==
    (op.kind = "network" /\ op.pc = "returned") =>
        LET n == op.result.network_optimization
            failing == {i \in 1..Len(op.entries) :
                LET data == op.entries[i].sensor_data
                IN  \/ ValidationError(op.entries[i].unit_id, data,
                                       op.strategy) # "none"
                    \/ EstimatorRaises("efficiency", data)
                    \/ EstimatorRaises("maintenance", data)
                    \/ EstimatorRaises("energy", EnergyData(data))}
        IN  /\ n.total_units = Len(op.entries)
            /\ n.total_units =
                   n.successful_optimizations + n.failed_optimizations
            /\ n.failed_optimizations = Cardinality(failing)
            /\ LET ok == SelectSeq(units, LAMBDA x : ~x.failed)
                   outcomes(i) ==
                       ok[i].result.optimization_plan.expected_outcomes
                   s == op.result.network_summary
               IN  ok # << >> =>
                     /\ s.total_efficiency_gain =
                            Sum([i \in 1..Len(ok) |->
                                    outcomes(i).total_efficiency_gain])
                     /\ s.total_energy_savings_kwh =
                            Sum([i \in 1..Len(ok) |->
                                    outcomes(i).total_energy_savings_kwh])
                     /\ s.total_co2_reduction_tons =
                            Sum([i \in 1..Len(ok) |->
                                    outcomes(i).total_co2_reduction_tons])
                     /\ s.total_implementation_cost =
                            Sum([i \in 1..Len(ok) |->
                                    outcomes(i).total_implementation_cost])

(* C11: a call served from the cache returns a result whose
   processing_time_ms is the duration of that call itself, and this is less
   than the duration measured by the call that stored the entry whenever
   that call took any time at all.  Checked under Spec. *)
C11_HitAnnotatedWithOwnTime ==
    \A c \in DOMAIN calls :
        LET w == calls[c].seen
        IN  (calls[c].pc = "returned" /\ calls[c].hit) =>
                /\ calls[c].result.processing_time_ms =
                       (calls[c].end_time - calls[c].start_time) * 1000
                /\ calls[w].end_time > calls[w].start_time =>
                       calls[c].result.processing_time_ms <
                           (calls[w].end_time - calls[w].start_time) * 1000

(* C12: in optimize_unit_comprehensive the optimization plan is generated
   after the join of the efficiency and the maintenance prediction: a unit
   with valid inputs whose three estimator calls can succeed ends with a
   plan, and a unit has a plan only when both predictions of that unit have
   returned.  Checked under SpecNetwork. *)
C12_PlanAfterBothPredictions ==
    op.kind = "network" =>
        \A u \in DOMAIN units :
            LET data == units[u].sensor_data
                able == /\ ValidationError(units[u].unit_id, data,
                                           op.strategy) = "none"
                        /\ ~EstimatorRaises("efficiency", data)
                        /\ ~EstimatorRaises("maintenance", data)
                        /\ ~EstimatorRaises("energy", EnergyData(data))
            IN  /\ units[u].result # NoResult =>
                      /\ calls[EffCall(u)].pc = "returned"
                      /\ calls[MaintCall(u)].pc = "returned"
                /\ (units[u].pc = "done" /\ able) =>
                      /\ ~units[u].failed
                      /\ units[u].result.optimization_plan.strategy_applied
                             = op.strategy

(* C13: optimize_unit_comprehensive given an empty unit_id, an unknown
   strategy or a reading that lacks temperature, pressure, flow_rate or
   energy_consumption raises before any prediction is issued: none of its
   predict calls is started, nothing is submitted to the worker pool and no
   cache entry is written on its behalf.  Checked under SpecNetwork. *)
C13_InvalidInputFailsFast ==
    op.kind = "network" =>
        \A u \in DOMAIN units :
            LET invalid ==
                    \/ units[u].unit_id = << >>
                    \/ op.strategy \notin Strategies
                    \/ \E sensor \in {"temperature", "pressure", "flow_rate",
                                      "energy_consumption"} :
                           sensor \notin DOMAIN units[u].sensor_data
                mine == {EffCall(u), MaintCall(u), EnergyCall(u)}
            IN  invalid =>
                    /\ \A c \in mine :
                          /\ calls[c].pc = "idle"
                          /\ ~calls[c].dispatched
                          /\ c \notin running
                          /\ \A i \in 1..Len(queue) : queue[i] # c
                    /\ \A k \in DOMAIN writer : writer[k] \notin mine
                    /\ units[u].pc \in {"created", "blocked", "woken", "done"}
                    /\ units[u].pc = "done" =>
                          /\ units[u].failed
                          /\ units[u].error # "none"

(* a unit rejected for a missing sensor has ended in error without any of
   its predict calls started, in a network where the efficiency prediction
   of another unit was dispatched *)
C13_Witness ==
    /\ op.kind = "network"
    /\ \E u \in DOMAIN units :
          /\ units[u].pc = "done" /\ units[u].failed
          /\ units[u].error = "Missing required sensor data"
          /\ calls[EffCall(u)].pc = "idle"
          /\ \E v \in DOMAIN units : v # u /\ calls[EffCall(v)].dispatched

(* C14: a predict_efficiency or predict_maintenance call made while no model
   is held for its target ends with an exception raised to its caller and
   returns no prediction.  Checked under Spec. *)
C14_UntrainedModelRaises ==
    \A c \in DOMAIN calls :
        (/\ Ended(calls[c])
         /\ calls[c].kind \in {"efficiency", "maintenance"}
         /\ models[calls[c].kind] = 0) =>
            /\ calls[c].pc = "raised"
            /\ calls[c].error # "none"
            /\ calls[c].result = NoResult

(* a predict_efficiency call went to the estimator while no efficiency
   model was held, and the estimator's error reached the caller *)
C14_Witness ==
    \E c \in DOMAIN calls :
        /\ calls[c].kind = "efficiency"
        /\ calls[c].dispatched
        /\ calls[c].pc = "raised"
        /\ calls[c].error = "model not trained"
        /\ models.efficiency = 0

(* C15: optimize_network returns the successful results in the relative
   order of their units in the input list, and the failure records
   likewise, in whatever order the units' optimizations ended.  Checked
   under SpecNetwork. *)
C15_NetworkKeepsInputOrder ==
    (op.kind = "network" /\ op.pc = "returned") =>
        LET pos(id) == CHOOSE u \in 1..Len(op.entries) :
                           op.entries[u].unit_id = id
            ordered(list) ==
                \A i, j \in 1..Len(list) :
                    i < j => pos(list[i].unit_id) < pos(list[j].unit_id)
        IN  /\ ordered(op.result.results)
            /\ ordered(op.result.failures)

(* a network call has returned two records of units that ended in the
   other order *)
C15_Witness ==
    /\ op.kind = "network" /\ op.pc = "returned"
    /\ \E i, j \in 1..Len(op.result.failures) :
          /\ i < j
          /\ \E u, v \in DOMAIN units :
                /\ units[u].unit_id = op.result.failures[i].unit_id
                /\ units[v].unit_id = op.result.failures[j].unit_id
                /\ units[u].finished > units[v].finished

(* C16: the list _prioritize_recommendations returns is its input
   rearranged: the priority scores do not increase along it, candidates of
   equal score are in their generation order, priority_rank counts 1..N
   along the list and priority_score is the candidate's score.  Checked
   under SpecPlan. *)
C16_PrioritizedIsStableSort ==
    op.kind = "prioritize" =>
        LET inp == op.entries
            out == op.result
            n == Len(inp)
            w == Templates[op.strategy].priority_weights
            bare(rec) == [k \in DOMAIN rec \ {"priority_rank",
                                               "priority_score"} |-> rec[k]]
        IN  /\ Len(out) = n
            /\ \A k \in 1..n :
                  /\ out[k].priority_rank = k
                  /\ out[k].priority_score = PriorityScore(bare(out[k]), w)
            /\ \A k \in 1..(n - 1) :
                  out[k].priority_score >= out[k + 1].priority_score
            /\ \E p \in [1..n -> 1..n] :
                  /\ \A i, j \in 1..n : i # j => p[i] # p[j]
                  /\ \A k \in 1..n : bare(out[k]) = inp[p[k]]
                  /\ \A k \in 1..(n - 1) :
                        out[k].priority_score = out[k + 1].priority_score
                            => p[k] < p[k + 1]

(* three candidates were reordered, two of them of equal score and
   different identity *)
C16_Witness ==
    /\ op.kind = "prioritize"
    /\ Len(op.result) = 3
    /\ op.result[1].id # op.entries[1].id
    /\ \E k \in 1..2 :
          /\ op.result[k].priority_score = op.result[k + 1].priority_score
          /\ op.result[k].id # op.result[k + 1].id

(* C17: every recommendation of a returned plan satisfies each numeric
   constraint of the plan's strategy: it does not raise the energy use by
   more than max_energy_increase, gains at least min_efficiency_gain, loses
   at most max_efficiency_decrease, saves at least min_energy_savings
   (50 kWh under energy_efficient), and leaves the maintenance risk, the
   predicted score less the recommendation's risk reduction, at or below
   max_maintenance_risk.  Checked under SpecPlan. *)
C17_PlanWithinConstraints ==
    op.kind = "plan" =>
        LET plan == op.result.optimization_plan
            score == op.result.predictions.maintenance.maintenance_score
        IN  \A k \in 1..Len(plan.recommendations) :
                LET impact == plan.recommendations[k].impact
                IN  /\ op.strategy = "efficiency_focused" =>
                          /\ impact.efficiency_gain >= 2
                          /\ impact.energy_savings >= -50
                    /\ op.strategy = "energy_efficient" =>
                          /\ impact.energy_savings >= 500
                          /\ impact.efficiency_gain >= -1
                    /\ op.strategy = "maintenance_prioritized" =>
                          score - impact.maintenance_risk_reduction <= 30

(* C18: the implementation timeline holds the first five recommendations
   of the plan at most, in their priority order; each entry lasts its
   recommendation's time_to_implement and each entry after the first starts
   when the entry before it ends.  Checked under SpecPlan. *)
C18_TimelineSequential ==
    op.kind = "plan" =>
        LET recs == op.result.optimization_plan.recommendations
            timeline == op.result.implementation_timeline
        IN  /\ Len(timeline) = Min(5, Len(recs))
            /\ \A k \in 1..Len(timeline) :
                  /\ timeline[k].recommendation_id = recs[k].id
                  /\ recs[k].priority_rank = k
                  /\ timeline[k].duration_hours = recs[k].time_to_implement
                  /\ timeline[k].end_time - timeline[k].start_time =
                         recs[k].time_to_implement
            /\ \A k \in 1..(Len(timeline) - 1) :
                  timeline[k + 1].start_time = timeline[k].end_time

(* a plan of more than five recommendations got a timeline of five windows
   of positive length *)
C18_Witness ==
    /\ op.kind = "plan"
    /\ Len(op.result.optimization_plan.recommendations) > 5
    /\ Len(op.result.implementation_timeline) = 5
    /\ \A k \in 1..5 : op.result.implementation_timeline[k].duration_hours > 0

(* C19: OptimizationService.shutdown shuts down its own executor and then
   the prediction service, and when PredictionService.shutdown has returned
   every estimator call its executor held, queued or running, when it was
   called has run to its end: none is left queued or running and none was
   dropped.  Checked under Spec. *)
C19_ShutdownCompletesInFlight ==
    /\ (shutdown.caller = "optimization" /\ shutdown.stage # "open") =>
          /\ shutdown.log[1] = "optimization executor"
          /\ shutdown.log[2] = "prediction executor"
    /\ shutdown.stage = "closed" =>
          /\ queue = << >> /\ running = {}
          /\ \A c \in shutdown.inflight :
                /\ calls[c].dispatched
                /\ calls[c].fut \in {"done", "exception"}

(* OptimizationService.shutdown has returned; when it was called one
   inference was running and another waited in the queue, and both ran *)
C19_Witness ==
    /\ shutdown.stage = "closed"
    /\ shutdown.caller = "optimization"
    /\ Cardinality(shutdown.inflight) = 2
    /\ \A c \in shutdown.inflight : calls[c].fut = "done"

(* C20: a predict_efficiency, predict_maintenance or optimize_energy call
   made after PredictionService.shutdown has returned is rejected: it
   raises and returns no prediction, also when its key is in the cache.
   Checked under Spec. *)
C20_RejectedAfterShutdown ==
    \A c \in DOMAIN calls :
        (calls[c].pc # "idle" /\ calls[c].after_shutdown) =>
            /\ calls[c].pc = "raised"
            /\ calls[c].result = NoResult

(* C21: the optimization_score in the performance_metrics of a unit's
   optimization lies between 0 and 100 (here times 10 000), for every
   reading and strategy the validation accepts.  Checked under SpecPlan. *)
C21_OptimizationScoreInRange ==
    (op.kind = "plan" /\ op.pc = "returned") =>
        /\ op.result.performance_metrics.optimization_score >= 0
        /\ op.result.performance_metrics.optimization_score <= 1000000

(* C22: a call that finds an entry for its key is served from the cache
   exactly when the entry's age, now - created_at, is at most the TTL, an
   entry of age exactly the TTL included; and the sweep deletes no entry
   whose age is at most the TTL: an entry stored that long ago or less is
   still in the cache.  Checked under Spec. *)
C22_ServedUpToTtlInclusive ==
    /\ \A c \in DOMAIN calls :
          LET w == calls[c].seen
          IN  (calls[c].pc # "idle" /\ cache_enabled /\ w # 0) =>
                  (calls[c].hit <=>
                      calls[c].start_time - calls[w].end_time <= cache_ttl)
    /\ \A k \in DOMAIN writer :
          now - calls[writer[k]].end_time <= cache_ttl =>
              k \in DOMAIN prediction_cache

(* C23: the sweep of expired entries runs on every path of a predict call:
   when a call has just returned, from the cache or from the estimator, the
   cache holds no entry older than the TTL.  Checked under SpecCache. *)
C23_SweptAfterEveryCall ==
    (\E c \in DOMAIN calls : calls[c].pc = "returned" /\ calls[c].end_time = now)
        => \A k \in DOMAIN prediction_cache : ~Expired(prediction_cache[k])

(* C24: under every interleaving of concurrent calls the cache, a mapping
   with one entry per key, holds complete entries only: a value and a
   timestamp, which are the result and the completion time of the call that
   stored the key last; and a call served from the cache got the whole
   result of the call that had stored the key last.  Checked under
   SpecCache. *)
C24_LastWriterWins ==
    /\ \A k \in DOMAIN prediction_cache :
          /\ DOMAIN prediction_cache[k] = {"data", "timestamp"}
          /\ k \in DOMAIN writer
          /\ prediction_cache[k].data = calls[writer[k]].result
          /\ prediction_cache[k].timestamp = calls[writer[k]].end_time
          /\ CacheKey(calls[writer[k]].kind, calls[writer[k]].data) = k
    /\ \A c \in DOMAIN calls :
          calls[c].hit =>
              /\ calls[c].seen # 0
              /\ calls[c].result = calls[calls[c].seen].result
              /\ "processing_time_ms" \in DOMAIN calls[c].result

(* two calls missed the cache for the same reading while neither had
   stored, both stored, at different times, and the entry is the later
   one's *)
C24_Witness ==
    \E c, d \in DOMAIN calls :
        /\ c # d
        /\ calls[c].data = calls[d].data
        /\ calls[c].pc = "returned" /\ calls[d].pc = "returned"
        /\ ~calls[c].hit /\ ~calls[d].hit
        /\ calls[c].stored /\ calls[d].stored
        /\ calls[d].start_time <= calls[c].end_time
        /\ calls[c].end_time < calls[d].end_time
        /\ LET k == CacheKey("efficiency", calls[d].data)
           IN  /\ k \in DOMAIN prediction_cache
               /\ prediction_cache[k].data = calls[d].result
               /\ prediction_cache[k].data # calls[c].result

(* C25: a prediction call that fails, the estimator not being ready or the
   inference raising, leaves the cache as it is: the step in which the call
   raises changes no entry, stores none and removes none.  Checked under
   SpecCache. *)
C25_FailedCallLeavesCache ==
    [][\A c \in DOMAIN calls :
          (calls[c].pc # "raised" /\ calls'[c].pc = "raised") =>
              /\ prediction_cache' = prediction_cache
              /\ writer' = writer]_vars

(* an inference raised at a moment when the cache held an entry older than
   the TTL, and the entry is still there *)
C25_Witness ==
    \E c \in DOMAIN calls :
        /\ calls[c].pc = "raised"
        /\ calls[c].dispatched
        /\ calls[c].end_time = now
        /\ CacheKey(calls[c].kind, calls[c].data) \notin DOMAIN prediction_cache
        /\ \E k \in DOMAIN prediction_cache : Expired(prediction_cache[k])

(* C28: with cache_enabled = False the cache stays empty whatever calls are
   made, and every call that returned went to the estimator: none was
   served from the cache.  Checked under SpecCache. *)
C28_CacheDisabledNeverStores ==
    ~cache_enabled =>
        /\ prediction_cache = << >>
        /\ \A c \in DOMAIN calls :
              calls[c].pc = "returned" =>
                  /\ ~calls[c].hit
                  /\ calls[c].dispatched
                  /\ calls[c].fut = "done"
                  /\ ~calls[c].stored

(* caching is off; a call for a reading returned, then a second call for
   the same reading was made and returned, and both ran the inference *)
C28_Witness ==
    /\ ~cache_enabled
    /\ \E c, d \in DOMAIN calls :
          /\ calls[c].pc = "returned" /\ calls[d].pc = "returned"
          /\ calls[c].data = calls[d].data
          /\ calls[c].end_time < calls[d].start_time
          /\ calls[d].start_time - calls[c].end_time < cache_ttl
          /\ calls[c].fut = "done" /\ calls[d].fut = "done"

(* C27: a plan holds recommendations of a domain only if the weight of its
   strategy for that domain is strictly greater than 0.3: the
   recommendations of an efficiency_focused plan are all of category
   efficiency, those of an energy_efficient plan of category energy, those
   of a maintenance_prioritized plan of category maintenance.  Checked
   under SpecPlan. *)
C27_DomainsFollowWeights ==
    (op.kind = "plan" /\ op.pc = "returned") =>
        LET recs == op.result.optimization_plan.recommendations
            weights == Templates[op.strategy].priority_weights
        IN  \A k \in 1..Len(recs) :
                /\ recs[k].category = "efficiency" => weights.efficiency > 30
                /\ recs[k].category = "energy" => weights.energy_savings > 30
                /\ recs[k].category = "maintenance" =>
                      weights.maintenance_risk > 30
                /\ op.strategy = "efficiency_focused" =>
                      recs[k].category = "efficiency"
                /\ op.strategy = "energy_efficient" =>
                      recs[k].category = "energy"
                /\ op.strategy = "maintenance_prioritized" =>
                      recs[k].category = "maintenance"

(* an efficiency_focused plan with recommendations, made at a peak hour for
   a reading that triggers the generators of all three domains *)
C27_Witness ==
    /\ op.kind = "plan" /\ op.pc = "returned"
    /\ op.strategy = "efficiency_focused"
    /\ op.entries = <<RichReading>>
    /\ now = PeakInstant
    /\ Len(op.result.optimization_plan.recommendations) >= 2

(* C26: when a unit's coroutine has raised because one of the two
   predictions of its gather failed, the other prediction is not running
   any more: it has ended, and no inference of the unit waits in the
   executor's queue or runs on a worker thread.  Checked under
   SpecNetwork. *)
C26_SiblingStoppedOnFailure ==
    \A u \in DOMAIN units :
        (units[u].pc = "done" /\ units[u].gather = "raised") =>
            \A c \in {EffCall(u), MaintCall(u)} :
                /\ calls[c].pc # "awaiting"
                /\ c \notin running
                /\ \A i \in 1..Len(queue) : queue[i] # c

(* C29: in the IoT gateway a reading that was buffered leaves the buffer
   only once the backend has accepted it, however the message handler and
   the flush thread interleave: every reading appended to the buffer is in
   the buffer or was sent.  Checked under SpecGateway. *)
C29_BufferedReadingNotLost ==
    \A r \in gateway.buffered :
        \/ r \in Held(gateway)
        \/ \E i \in 1..Len(gateway.sent) : gateway.sent[i] = r

(* C30: when run_scenario has run a scenario of the default set to its end
   with the engine running all along and no other run overlapping it, each
   system event of the scenario was triggered once, not before its time
   offset; and no event is triggered after the end of its run.  Checked
   under SpecEngine. *)
C30_ScenarioEventsTriggered ==
    /\ \A i \in 1..Len(engine.runs) :
          LET run == engine.runs[i]
              events == Scenarios[run.scenario_name].system_events
          IN  (/\ run.pc = "done"
               /\ run.running_at_start /\ engine.is_running
               /\ \A j \in 1..Len(engine.runs) :
                     j # i => \/ engine.runs[j].start >= run.until
                              \/ engine.runs[j].until <= run.start) =>
                  \A e \in 1..Len(events) :
                      /\ Cardinality({k \in 1..Len(engine.triggered) :
                                         /\ engine.triggered[k].run = i
                                         /\ engine.triggered[k].event = e})
                            = 1
                      /\ \A k \in 1..Len(engine.triggered) :
                            (/\ engine.triggered[k].run = i
                             /\ engine.triggered[k].event = e) =>
                                engine.triggered[k].at
                                    >= run.start + events[e].time
    /\ \A k \in 1..Len(engine.triggered) :
          engine.triggered[k].at <= engine.runs[engine.triggered[k].run].until

====
